---- MODULE Spec2Model ----
(***************************************************************************)
(* Raw-buffer decoding pipeline of libDELILA-digitizer: the ingest engine  *)
(* (AddData / DecodeThread / GetEventData / destructor) shared by          *)
(* PSD2Decoder, Dig1Decoder (PSD1) and PHA1Decoder, and the format         *)
(* decoders the workers run.                                               *)
(*                                                                         *)
(* A machine word is the set of its set bit positions, so that 32- and     *)
(* 64-bit words are exact.  A timestamp in nanoseconds is kept as the      *)
(* integer 1024 x timeStampNs (the fine time has denominator 1024).        *)
(***************************************************************************)
EXTENDS Integers, Sequences, FiniteSets, TLC

\* ------------------------------------------------------------------ bounds
MaxThreads == 2
MaxSubmits == 3
MaxDrains == 2

\* ------------------------------------------------------- words and buffers
RECURSIVE Pow2(_)
Pow2(n) == IF n = 0 THEN 1 ELSE 2 * Pow2(n - 1)

\* (word >> shift) & (2^width - 1)
RECURSIVE Bits(_, _, _)
Bits(word, shift, width) ==
  IF width = 0 THEN 0
  ELSE (IF shift \in word THEN 1 ELSE 0) + 2 * Bits(word, shift + 1, width - 1)

\* the word whose bits [shift, shift+width) hold value & (2^width - 1)
RECURSIVE Enc(_, _, _)
Enc(value, shift, width) ==
  IF width = 0 \/ value = 0 THEN {}
  ELSE (IF value % 2 = 1 THEN {shift} ELSE {})
         \cup Enc(value \div 2, shift + 1, width - 1)

\* std::reverse over the 8 bytes of one 64-bit word
ReverseBytes(word) == {(7 - (b \div 8)) * 8 + (b % 8) : b \in word}

\* RawData: the byte vector (kept as whole words) and the size field in bytes
RawData(data, size) == [data |-> data, size |-> size]

\* memcpy of the word at wordIndex; past the end of the vector the read is
\* undefined, the value modelled for a surviving process is the zero word
ReadWord(raw, wordIndex) ==
  IF wordIndex < Len(raw.data) THEN raw.data[wordIndex + 1] ELSE {}

OutOfData(raw, wordIndex) == wordIndex >= Len(raw.data)

\* ---------------------------------------------------------- PSD2 constants
kWordSize == 8
kTypeShift == 60
kTypeData == 2
kAggregateCounterShift == 32
kChannelShift == 56
kWaveformFlagShift == 62
kFlagsLowPriorityShift == 50
kFlagsHighPriorityShift == 42
kEnergyShortShift == 26
kFineTimeShift == 16
kFineTimeScale == 1024
kTimeResolutionShift == 44

\* ------------------------------------------------- PSD2 data type detection
CheckStop(raw) ==
  LET w0 == ReadWord(raw, 0)
      w1 == ReadWord(raw, 1)
      w2 == ReadWord(raw, 2)
      firstCondition == Bits(w0, 60, 4) = 3 /\ Bits(w0, 56, 4) = 2
      secondCondition == Bits(w1, 56, 4) = 0
      thirdCondition == Bits(w2, 56, 4) = 1
  IN firstCondition /\ secondCondition /\ thirdCondition

CheckStart(raw) ==
  LET w0 == ReadWord(raw, 0)
      w1 == ReadWord(raw, 1)
      w2 == ReadWord(raw, 2)
      w3 == ReadWord(raw, 3)
      firstCondition == Bits(w0, 60, 4) = 3 /\ Bits(w0, 56, 4) = 0
      secondCondition == Bits(w1, 56, 4) = 2
      thirdCondition == Bits(w2, 56, 4) = 1
      fourthCondition == Bits(w3, 56, 4) = 1
  IN firstCondition /\ secondCondition /\ thirdCondition /\ fourthCondition

CheckDataType(raw) ==
  IF raw.size < 3 * kWordSize THEN "Unknown"
  ELSE IF raw.size = 3 * kWordSize /\ CheckStop(raw) THEN "Stop"
  ELSE IF raw.size = 4 * kWordSize /\ CheckStart(raw) THEN "Start"
  ELSE "Event"

\* the big-endian to little-endian loop of AddData
SwapEndian(raw) ==
  [raw EXCEPT !.data = [i \in 1..Len(raw.data) |->
     IF (i - 1) * kWordSize < raw.size THEN ReverseBytes(raw.data[i])
     ELSE raw.data[i]]]

\* ----------------------------------------------------------- PSD2 decoding
\* EventData as constructed by EventData(waveformSize); firstWord, nextWord,
\* pairHeader, blockEnd and boardEnd record where in the buffer a decoder
\* took the event from (its first word, the cursor after it, the header of
\* its pair block, the end of that block as the decoder bounds it, and the
\* end of its board aggregate); src and seq are the
\* provenance of the record: the AddData call and the scan position
\* std::vector::resize on a value-initialised trace: size zero elements
Resized(size) == [i \in 1..size |-> 0]

\* trace[index] = value, the index counted from 0 as in the code
Store(trace, index, value) == [trace EXCEPT ![index + 1] = value]

\* a resize that reaches the two analog traces only
ResizeAnalog(eventData, size) ==
  [eventData EXCEPT !.waveformSize = size,
                    !.analogProbe1 = Resized(size),
                    !.analogProbe2 = Resized(size)]

\* the six trace vectors all take the new size
ResizeWaveform(eventData, size) ==
  [eventData EXCEPT !.waveformSize = size,
                    !.analogProbe1 = Resized(size),
                    !.analogProbe2 = Resized(size),
                    !.digitalProbe1 = Resized(size),
                    !.digitalProbe2 = Resized(size),
                    !.digitalProbe3 = Resized(size),
                    !.digitalProbe4 = Resized(size)]

\* the member initialisers of the constructor, the traces still empty
EventDataMembers ==
  [timeStampNs |-> 0, waveformSize |-> 0, energy |-> 0,
   energyShort |-> 0, module |-> 0, channel |-> 0, timeResolution |-> 0,
   downSampleFactor |-> 0, flags |-> 0, src |-> 0, seq |-> 0,
   firstWord |-> 0, nextWord |-> 0, pairHeader |-> 0, blockEnd |-> 0,
   boardEnd |-> 0, analogProbe1 |-> <<>>, analogProbe2 |-> <<>>,
   digitalProbe1 |-> <<>>, digitalProbe2 |-> <<>>, digitalProbe3 |-> <<>>,
   digitalProbe4 |-> <<>>]

EventData(waveformSize) ==
  IF waveformSize > 0 THEN ResizeWaveform(EventDataMembers, waveformSize)
  ELSE EventDataMembers

ValidateDataHeader(headerWord) == Bits(headerWord, kTypeShift, 4) = kTypeData

AggregateCounter(headerWord) == Bits(headerWord, kAggregateCounterShift, 16)

TotalSize(headerWord) == Bits(headerWord, 0, 32)

DecodeFirstWord(word, eventData) ==
  [eventData EXCEPT !.channel = Bits(word, kChannelShift, 7)]

\* the second word decoded with the coarse time only
DecodeSecondWordCoarse(word, eventData, rawTimeStamp, timeStep) ==
  [eventData EXCEPT
     !.flags = Bits(word, kFlagsHighPriorityShift, 8) * 2048
               + Bits(word, kFlagsLowPriorityShift, 11),
     !.energyShort = Bits(word, kEnergyShortShift, 16),
     !.energy = Bits(word, 0, 16),
     !.timeStampNs = rawTimeStamp * timeStep * kFineTimeScale]

DecodeSecondWord(word, eventData, rawTimeStamp, timeStep) ==
  LET flagsLowPriority == Bits(word, kFlagsLowPriorityShift, 11)
      flagsHighPriority == Bits(word, kFlagsHighPriorityShift, 8)
      fineTime == Bits(word, kFineTimeShift, 10)
  IN [eventData EXCEPT
        !.flags = flagsHighPriority * 2048 + flagsLowPriority,
        !.energyShort = Bits(word, kEnergyShortShift, 16),
        !.energy = Bits(word, 0, 16),
        !.timeStampNs = rawTimeStamp * timeStep * kFineTimeScale
                        + fineTime * timeStep]

\* ------------------------------------------------------- gen-2 waveforms
GetMultiplicationFactor(encodedValue) ==
  CASE encodedValue = 0 -> 1
    [] encodedValue = 1 -> 4
    [] encodedValue = 2 -> 8
    [] encodedValue = 3 -> 16
    [] OTHER -> 1

ExtractWaveformConfig(header) ==
  [ap1IsSigned |-> 3 \in header,
   ap1MulFactor |-> GetMultiplicationFactor(Bits(header, 4, 2)),
   ap2IsSigned |-> 9 \in header,
   ap2MulFactor |-> GetMultiplicationFactor(Bits(header, 10, 2))]

\* a 14-bit value taken as it is
ZeroExtend(analogRaw) == analogRaw

\* if (analogRaw & 0x2000) analogRaw |= 0xFFFFC000, then read as int32_t:
\* the 32-bit pattern with bits 14..31 set is analogRaw - 2^14
SignExtend(analogRaw) ==
  IF (analogRaw \div 8192) % 2 = 1 THEN analogRaw - 16384 ELSE analogRaw

AnalogValue(analogRaw, isSigned, mulFactor) ==
  IF isSigned THEN SignExtend(analogRaw) * mulFactor
  ELSE ZeroExtend(analogRaw) * mulFactor

\* one 32-bit point, the half (0 low, 1 high) of a 64-bit waveform word; a
\* store past the end of the traces is left to the undefined flag of
\* DecodeEventPair
DecodeWaveformPoint(waveformWord, half, dataIndex, config, eventData) ==
  LET shift == half * 32
  IN IF dataIndex < Len(eventData.analogProbe1)
     THEN [eventData EXCEPT
             !.analogProbe1 = Store(@, dataIndex,
                AnalogValue(Bits(waveformWord, shift, 14),
                            config.ap1IsSigned, config.ap1MulFactor)),
             !.analogProbe2 = Store(@, dataIndex,
                AnalogValue(Bits(waveformWord, shift + 16, 14),
                            config.ap2IsSigned, config.ap2MulFactor)),
             !.digitalProbe1 = Store(@, dataIndex,
                                     Bits(waveformWord, shift + 14, 1)),
             !.digitalProbe2 = Store(@, dataIndex,
                                     Bits(waveformWord, shift + 15, 1)),
             !.digitalProbe3 = Store(@, dataIndex,
                                     Bits(waveformWord, shift + 30, 1)),
             !.digitalProbe4 = Store(@, dataIndex,
                                     Bits(waveformWord, shift + 31, 1))]
     ELSE eventData

\* for (size_t j = 0; j < nWordsWaveform; j++), the words from wordIndex on
RECURSIVE WaveformPoints(_, _, _, _, _, _)
WaveformPoints(raw, wordIndex, j, nWordsWaveform, config, eventData) ==
  IF j < nWordsWaveform
  THEN LET waveformWord == ReadWord(raw, wordIndex + j)
       IN WaveformPoints(raw, wordIndex, j + 1, nWordsWaveform, config,
            DecodeWaveformPoint(waveformWord, 1, j * 2 + 1, config,
              DecodeWaveformPoint(waveformWord, 0, j * 2, config, eventData)))
  ELSE eventData

DecodeWaveformHeader(header, eventData) ==
  [eventData EXCEPT !.downSampleFactor =
     Pow2(Bits(header, kTimeResolutionShift, 2))]

\* the header word at wordIndex, the length word behind it, then the data
DecodeWaveformData(raw, wordIndex, eventData) ==
  LET waveformHeader == ReadWord(raw, wordIndex)
      nWordsWaveform == Bits(ReadWord(raw, wordIndex + 1), 0, 12)
  IN WaveformPoints(raw, wordIndex + 2, 0, nWordsWaveform,
                    ExtractWaveformConfig(waveformHeader),
                    DecodeWaveformHeader(waveformHeader, eventData))

\* one call of DecodeEventPair: the event, the cursor after it, and whether
\* a word was read past the vector or a sample written past the traces
DecodeEventPair(raw, wordIndex, timeStep, moduleNumber) ==
  LET firstWord == ReadWord(raw, wordIndex)
      secondWord == ReadWord(raw, wordIndex + 1)
      wi == wordIndex + 2
      hasWaveform == Bits(secondWord, kWaveformFlagShift, 1) = 1
      peekWords == Bits(ReadWord(raw, wi + 2), 0, 12)
      waveformSize == IF hasWaveform THEN peekWords * 2 ELSE 0
      nWordsWaveform == Bits(ReadWord(raw, wi + 1), 0, 12)
      e0 == EventData(waveformSize)
      e1 == DecodeFirstWord(firstWord, e0)
      e2 == DecodeSecondWord(secondWord, e1, Bits(firstWord, 0, 48), timeStep)
      e3 == IF hasWaveform THEN DecodeWaveformData(raw, wi, e2) ELSE e2
      lastRead == IF hasWaveform
                  THEN (IF nWordsWaveform > 0 THEN wi + 1 + nWordsWaveform
                        ELSE wi + 2)
                  ELSE wordIndex + 1
  IN [event |-> [e3 EXCEPT !.timeResolution = timeStep,
                           !.module = moduleNumber,
                           !.firstWord = wordIndex,
                           !.nextWord = IF hasWaveform
                                        THEN wi + 2 + nWordsWaveform ELSE wi],
      wordIndex |-> IF hasWaveform THEN wi + 2 + nWordsWaveform ELSE wi,
      lastRead |-> lastRead,
      written |-> IF hasWaveform THEN 2 * nWordsWaveform ELSE 0,
      undefined |-> OutOfData(raw, lastRead)
                    \/ (hasWaveform /\ 2 * nWordsWaveform > waveformSize)]

\* ------------------------------------------------------------- input data
Header(type, counter, totalSize) ==
  Enc(type, kTypeShift, 4) \cup Enc(counter, kAggregateCounterShift, 16)
    \cup Enc(totalSize, 0, 32)

EventFirst(channel, rawTimeStamp) ==
  Enc(channel, kChannelShift, 7) \cup Enc(rawTimeStamp, 0, 48)

EventSecond(energy, fineTime, energyShort) ==
  Enc(energy, 0, 16) \cup Enc(fineTime, kFineTimeShift, 10)
    \cup Enc(energyShort, kEnergyShortShift, 16) \cup {63}

TopByte(value) == Enc(value, 56, 8)

\* what the device sends is big-endian: the wire image of logical words
Wire(words) ==
  RawData([i \in 1..Len(words) |-> ReverseBytes(words[i])],
          Len(words) * kWordSize)

StartSignal == Wire(<<TopByte(48), TopByte(2), TopByte(1), TopByte(1)>>)
StopSignal == Wire(<<TopByte(50), TopByte(0), TopByte(1) \cup Enc(5, 0, 32)>>)
ShortData == Wire(<<TopByte(48), TopByte(2)>>)
OddSizeData == [Wire(<<TopByte(48), TopByte(2), TopByte(1)>>) EXCEPT !.size = 20]
TwoEvents ==
  Wire(<<Header(kTypeData, 1, 5),
         EventFirst(5, 7), EventSecond(42, 512, 10),
         EventFirst(6, 3), EventSecond(43, 0, 11)>>)
BadHeader ==
  Wire(<<Header(7, 3, 3), EventFirst(1, 9), EventSecond(9, 0, 2)>>)

\* a well-formed aggregate whose counter is 0
ZeroCounter ==
  Wire(<<Header(kTypeData, 0, 3), EventFirst(2, 5), EventSecond(44, 0, 12)>>)

RawInputs ==
  {StartSignal, StopSignal, ShortData, OddSizeData, TwoEvents, BadHeader,
   ZeroCounter}

\* ------------------------------------------- 32-bit formats (PSD1 and PHA1)
Dig1_kWordSize == 4
kBoardHeaderTypeShift == 28
kBoardHeaderTypeData == 10
kDualChannelHeaderShift == 31
kExtraOptionShift == 24
kSamplesEnabledShift == 27
kExtrasEnabledShift == 28
kChargeEnabledShift == 30
kChannelFlagShift == 31
kExtendedTimeShift == 16
kChargeLongShift == 16
kExtraShift == 16
kHeaderSizeWords == 4
ChannelHeader_kHeaderSizeWords == 2
kMinimumEventSize == 64
kMaxWaveformSamples == 65536
kSamplesPerWord == 2
kSamplesPerGroup == 8
kExtendedFlagsFineTT == 2
kFlagsShift == 10
kDualTraceShift == 31
kSecondSampleShift == 16
kDigitalProbe1WaveShift == 14
kDigitalProbe2WaveShift == 15

\* static_cast<uint64_t>(x) << n
ShiftLeft(x, n) == IF x = 0 THEN 0 ELSE x * Pow2(n)

\* the locals of a ProcessEventData scan: cursor, eventDataVec, and whether
\* a read went past the vector
Scan(wordIndex, events, undefined) ==
  [wordIndex |-> wordIndex, events |-> events, undefined |-> undefined]

PushBack(events, eventData) ==
  Append(events, [eventData EXCEPT !.seq = Len(events) + 1])

\* Dig1Decoder::CheckDataType and PHA1Decoder::CheckDataType
Dig1CheckDataType(raw) ==
  IF raw.size < 4 * Dig1_kWordSize THEN "Unknown"
  ELSE IF Bits(ReadWord(raw, 0), kBoardHeaderTypeShift, 4) = kBoardHeaderTypeData
       THEN "Event"
  ELSE IF raw.size >= 16 * Dig1_kWordSize THEN "Event"
  ELSE "Unknown"

PHA1CheckDataType(raw) ==
  IF raw.size < kHeaderSizeWords * Dig1_kWordSize THEN "Unknown"
  ELSE IF Bits(ReadWord(raw, 0), kBoardHeaderTypeShift, 4) = kBoardHeaderTypeData
       THEN "Event"
  ELSE IF raw.size >= kMinimumEventSize THEN "Event"
  ELSE "Unknown"

\* ------------------------------------------------------------ Dig1Decoder
Dig1ValidateDataHeader(headerWord) ==
  Bits(headerWord, kBoardHeaderTypeShift, 4) = kBoardHeaderTypeData

Dig1DecodeBoardHeader(raw, wordIndex) ==
  [aggregateSize |-> Bits(ReadWord(raw, wordIndex), 0, 28),
   dualChannelMask |-> ReadWord(raw, wordIndex + 1) \cap (0..7),
   wordIndex |-> wordIndex + 4,
   undefined |-> OutOfData(raw, wordIndex + 3)]

Dig1DecodeDualChannelHeader(raw, wordIndex) ==
  LET word1 == ReadWord(raw, wordIndex)
      word2 == ReadWord(raw, wordIndex + 1)
      isValidHeader == kDualChannelHeaderShift \in word1
  IN [ok |-> isValidHeader,
      wordIndex |-> IF isValidHeader THEN wordIndex + 2 ELSE wordIndex + 1,
      undefined |-> OutOfData(raw, IF isValidHeader THEN wordIndex + 1
                                   ELSE wordIndex),
      aggregateSize |-> Bits(word1, 0, 22),
      numSamplesWave |-> Bits(word2, 0, 16),
      dualTraceEnabled |-> kDualTraceShift \in word2,
      extraOption |-> Bits(word2, kExtraOptionShift, 3),
      samplesEnabled |-> kSamplesEnabledShift \in word2,
      extrasEnabled |-> kExtrasEnabledShift \in word2,
      chargeEnabled |-> kChargeEnabledShift \in word2]

Dig1DecodeChargeWord(chargeWord, eventData) ==
  [eventData EXCEPT !.energyShort = Bits(chargeWord, 0, 15),
                    !.energy = Bits(chargeWord, kChargeLongShift, 16)]

\* the flags DecodeExtrasWord stores: bits 2..5 of the 6-bit group at
\* kFlagsShift, each kept at its weight in the group (0x04 N_LOST_TRIGGER,
\* 0x08 1024_TRIGGER, 0x10 OVER_RANGE, 0x20 TRIGGER_LOST)
ExtrasFlags(extrasWord) == Bits(extrasWord, kFlagsShift + 2, 4) * 4

\* Dig1Decoder::DecodeExtrasWord: one layout whatever the extras option
Dig1DecodeExtrasWord(extrasWord) ==
  [extendedTime |-> Bits(extrasWord, kExtendedTimeShift, 16),
   fineTimeStamp |-> Bits(extrasWord, 0, 10),
   flags |-> ExtrasFlags(extrasWord)]

\* PHA1Decoder::DecodeExtrasWord: fine time and flags for option 0b010 only
PHA1DecodeExtrasWord(extrasWord, extraOption) ==
  [extendedTime |-> Bits(extrasWord, kExtendedTimeShift, 16),
   fineTimeStamp |-> IF extraOption = kExtendedFlagsFineTT
                     THEN Bits(extrasWord, 0, 10) ELSE 0,
   flags |-> IF extraOption = kExtendedFlagsFineTT
             THEN ExtrasFlags(extrasWord) ELSE 0]

\* the first sample of a waveform word, stored at the even index 2i: 14
\* analog bits and two digital probe bits; under dual trace the second
\* analog probe takes analogProbe1[sampleIndex1 - 1] as it stands
EvenSample(eventData, waveformWord, sampleIndex1, dualTraceEnabled) ==
  IF sampleIndex1 < eventData.waveformSize
  THEN [eventData EXCEPT
          !.analogProbe1 = Store(@, sampleIndex1, Bits(waveformWord, 0, 14)),
          !.digitalProbe1 = Store(@, sampleIndex1,
             Bits(waveformWord, kDigitalProbe1WaveShift, 1)),
          !.digitalProbe2 = Store(@, sampleIndex1,
             Bits(waveformWord, kDigitalProbe2WaveShift, 1)),
          !.analogProbe2 =
             IF dualTraceEnabled /\ sampleIndex1 > 0
             THEN Store(@, sampleIndex1, eventData.analogProbe1[sampleIndex1])
             ELSE @]
  ELSE eventData

\* the second sample, stored at the odd index 2i + 1; under dual trace it
\* goes to the second analog probe and analogProbe1[sampleIndex2] is
\* overwritten with analogProbe1[sampleIndex2 - 1]
OddSample(eventData, waveformWord, sampleIndex2, dualTraceEnabled) ==
  IF sampleIndex2 < eventData.waveformSize
  THEN [eventData EXCEPT
          !.analogProbe1 =
             Store(@, sampleIndex2,
                   IF dualTraceEnabled THEN @[sampleIndex2]
                   ELSE Bits(waveformWord, kSecondSampleShift, 14)),
          !.digitalProbe1 = Store(@, sampleIndex2,
             Bits(waveformWord,
                  kSecondSampleShift + kDigitalProbe1WaveShift, 1)),
          !.digitalProbe2 = Store(@, sampleIndex2,
             Bits(waveformWord,
                  kSecondSampleShift + kDigitalProbe2WaveShift, 1)),
          !.analogProbe2 =
             IF dualTraceEnabled
             THEN Store(@, sampleIndex2,
                        Bits(waveformWord, kSecondSampleShift, 14))
             ELSE @]
  ELSE eventData

\* one waveform word: two 16-bit samples at 2i and 2i + 1 (PHA1 has the
\* same body under its own constant names)
DecodeWaveformWord(eventData, waveformWord, i, dualTraceEnabled) ==
  OddSample(EvenSample(eventData, waveformWord, i * 2, dualTraceEnabled),
            waveformWord, i * 2 + 1, dualTraceEnabled)

\* for (size_t i = 0; i < numWords; ++i), the words read from wordIndex on
RECURSIVE WaveformLoop(_, _, _, _, _, _)
WaveformLoop(raw, wordIndex, eventData, i, numWords, dualTraceEnabled) ==
  IF i < numWords
  THEN WaveformLoop(raw, wordIndex,
         DecodeWaveformWord(eventData, ReadWord(raw, wordIndex + i), i,
                            dualTraceEnabled),
         i + 1, numWords, dualTraceEnabled)
  ELSE eventData

Dig1DecodeWaveform(raw, wordIndex, dualChInfo, eventData) ==
  WaveformLoop(raw, wordIndex, eventData, 0, dualChInfo.numSamplesWave * 2,
               dualChInfo.dualTraceEnabled)

Dig1DecodeEventDirect(raw, wordIndex, dualChInfo, timeStep, moduleNumber) ==
  LET timeTagWord == ReadWord(raw, wordIndex)
      triggerTimeTag == Bits(timeTagWord, 0, 31)
      waveformSize == dualChInfo.numSamplesWave * 8
      numWords == IF dualChInfo.samplesEnabled /\ waveformSize > 0
                  THEN dualChInfo.numSamplesWave * 2 ELSE 0
      extrasIndex == wordIndex + 1 + numWords
      extrasWord == ReadWord(raw, extrasIndex)
      chargeIndex == extrasIndex + (IF dualChInfo.extrasEnabled THEN 1 ELSE 0)
      endIndex == chargeIndex + (IF dualChInfo.chargeEnabled THEN 1 ELSE 0)
      extras == Dig1DecodeExtrasWord(extrasWord)
      extendedTime == extras.extendedTime
      fineTimeStamp == extras.fineTimeStamp
      e0 == [EventData(waveformSize) EXCEPT
               !.channel = IF kChannelFlagShift \in timeTagWord THEN 1 ELSE 0,
               !.module = moduleNumber,
               !.timeResolution = timeStep,
               !.flags = IF dualChInfo.extrasEnabled THEN extras.flags ELSE 0,
               !.timeStampNs =
                  IF dualChInfo.extrasEnabled
                  THEN (triggerTimeTag + ShiftLeft(extendedTime, 31))
                          * timeStep * kFineTimeScale
                       + fineTimeStamp * timeStep
                  ELSE triggerTimeTag * timeStep * kFineTimeScale]
      ew == IF dualChInfo.samplesEnabled /\ waveformSize > 0
            THEN Dig1DecodeWaveform(raw, wordIndex + 1, dualChInfo, e0)
            ELSE e0
      e1 == IF dualChInfo.chargeEnabled
            THEN Dig1DecodeChargeWord(ReadWord(raw, chargeIndex), ew) ELSE ew
  IN [event |-> e1, wordIndex |-> endIndex,
      undefined |-> OutOfData(raw, endIndex - 1)]

\* while (wordIndex < channelEndIndex && wordIndex < boardEndIndex)
RECURSIVE Dig1EventLoop(_, _, _, _, _, _, _, _)
Dig1EventLoop(raw, scan, channelEndIndex, boardEndIndex, dualChInfo, pair, timeStep, moduleNumber) ==
  IF scan.wordIndex < channelEndIndex /\ scan.wordIndex < boardEndIndex
  THEN LET d == Dig1DecodeEventDirect(raw, scan.wordIndex, dualChInfo,
                                      timeStep, moduleNumber)
           eventData == [d.event EXCEPT !.channel = @ + pair * 2,
                                        !.firstWord = scan.wordIndex,
                                        !.nextWord = d.wordIndex,
                                        !.pairHeader = dualChInfo.wordIndex - 2,
                                        !.blockEnd = channelEndIndex,
                                        !.boardEnd = boardEndIndex]
       IN Dig1EventLoop(raw,
            Scan(d.wordIndex, PushBack(scan.events, eventData),
                 scan.undefined \/ d.undefined),
            channelEndIndex, boardEndIndex, dualChInfo, pair, timeStep,
            moduleNumber)
  ELSE scan

\* for (int pair = 0; pair < 8; ++pair)
RECURSIVE Dig1PairLoop(_, _, _, _, _, _, _)
Dig1PairLoop(raw, scan, pair, boardEndIndex, activeMask, timeStep, moduleNumber) ==
  IF pair >= 8 THEN scan
  ELSE IF pair \notin activeMask
  THEN Dig1PairLoop(raw, scan, pair + 1, boardEndIndex, activeMask, timeStep,
                    moduleNumber)
  ELSE IF scan.wordIndex >= boardEndIndex THEN scan
  ELSE LET h == Dig1DecodeDualChannelHeader(raw, scan.wordIndex)
           end0 == h.wordIndex - 2 + h.aggregateSize
           channelEndIndex == IF end0 > boardEndIndex THEN boardEndIndex
                              ELSE end0
           afterHeader == Scan(h.wordIndex, scan.events,
                               scan.undefined \/ h.undefined)
       IN IF ~h.ok THEN afterHeader
          ELSE Dig1PairLoop(raw,
                 Dig1EventLoop(raw, afterHeader, channelEndIndex,
                               boardEndIndex, h, pair, timeStep, moduleNumber),
                 pair + 1, boardEndIndex, activeMask, timeStep, moduleNumber)

\* one iteration of while (wordIndex < totalDataSize) in ProcessEventData
Dig1ProcessBlock(raw, scan, totalDataSize, timeStep, moduleNumber) ==
  LET boardInfo == Dig1DecodeBoardHeader(raw, scan.wordIndex)
      end0 == boardInfo.wordIndex - 4 + boardInfo.aggregateSize
      boardEndIndex == IF end0 > totalDataSize THEN totalDataSize ELSE end0
      p == Dig1PairLoop(raw,
             Scan(boardInfo.wordIndex, scan.events,
                  scan.undefined \/ boardInfo.undefined),
             0, boardEndIndex, boardInfo.dualChannelMask, timeStep,
             moduleNumber)
  IN [scan |-> Scan(boardEndIndex, p.events, p.undefined), break |-> FALSE]

\* ------------------------------------------------------------ PHA1Decoder
\* MemoryReader over totalSizeWords words
GetRemainingWords(totalSizeWords, currentIndex) ==
  IF currentIndex < totalSizeWords THEN totalSizeWords - currentIndex ELSE 0

IsValidIndex(totalSizeWords, wordIndex) == wordIndex < totalSizeWords

ValidateRawData(size) ==
  IF size < 4 * Dig1_kWordSize THEN "InsufficientData"
  ELSE IF size % Dig1_kWordSize # 0 THEN "CorruptedData"
  ELSE "Success"

ValidateBoardHeader(word0) ==
  IF Bits(word0, kBoardHeaderTypeShift, 4) # kBoardHeaderTypeData
  THEN "InvalidHeader"
  ELSE IF Bits(word0, 0, 28) < kHeaderSizeWords THEN "CorruptedData"
  ELSE "Success"

ValidateDualChannelHeader(word0, word1) ==
  IF kDualChannelHeaderShift \notin word0 THEN "InvalidHeader"
  ELSE IF Bits(word0, 0, 22) < ChannelHeader_kHeaderSizeWords
  THEN "CorruptedData"
  ELSE IF Bits(word1, 0, 16) * kSamplesPerGroup > kMaxWaveformSamples
  THEN "InvalidWaveformSize"
  ELSE "Success"

ValidateBlockBounds(currentIndex, endIndex, totalSize) ==
  IF endIndex > totalSize THEN "OutOfBounds"
  ELSE IF currentIndex > endIndex THEN "CorruptedData"
  ELSE "Success"

PHA1ValidateDataHeader(headerWord) ==
  IF Bits(headerWord, kBoardHeaderTypeShift, 4) # kBoardHeaderTypeData
  THEN "InvalidHeader" ELSE "Success"

PHA1DecodeBoardHeader(raw, totalSizeWords, wordIndex) ==
  IF GetRemainingWords(totalSizeWords, wordIndex) < kHeaderSizeWords
  THEN [result |-> "InsufficientData", wordIndex |-> wordIndex,
        aggregateSize |-> 0, dualChannelMask |-> {}]
  ELSE [result |-> ValidateBoardHeader(ReadWord(raw, wordIndex)),
        wordIndex |-> wordIndex + 4,
        aggregateSize |-> Bits(ReadWord(raw, wordIndex), 0, 28),
        dualChannelMask |-> ReadWord(raw, wordIndex + 1) \cap (0..7)]

PHA1DecodeDualChannelHeader(raw, totalSizeWords, wordIndex) ==
  LET word0 == ReadWord(raw, wordIndex)
      word1 == ReadWord(raw, wordIndex + 1)
      short == GetRemainingWords(totalSizeWords, wordIndex)
                 < ChannelHeader_kHeaderSizeWords
  IN [result |-> IF short THEN "InsufficientData"
                 ELSE ValidateDualChannelHeader(word0, word1),
      wordIndex |-> IF short THEN wordIndex ELSE wordIndex + 2,
      aggregateSize |-> Bits(word0, 0, 31),
      numSamplesWave |-> Bits(word1, 0, 16),
      dualTraceEnabled |-> kDualTraceShift \in word1,
      extraOption |-> Bits(word1, kExtraOptionShift, 3),
      samplesEnabled |-> kSamplesEnabledShift \in word1,
      extras2Enabled |-> kExtrasEnabledShift \in word1,
      energyEnabled |-> kChargeEnabledShift \in word1]

PHA1DecodeEnergyWord(energyWord, eventData) ==
  [eventData EXCEPT !.energy = Bits(energyWord, 0, 15),
                    !.energyShort = Bits(energyWord, kExtraShift, 10)]

\* DecodeEventDirect with DecodeEventHeader, DecodeEventTimestamp and
\* DecodeEventDataComponents; ok is FALSE where the code returns nullptr
\* the waveform is skipped when fewer than numWords words remain
PHA1DecodeWaveform(raw, totalSizeWords, wordIndex, dualChInfo, eventData) ==
  LET numWords == dualChInfo.numSamplesWave * kSamplesPerWord
  IN IF GetRemainingWords(totalSizeWords, wordIndex) < numWords
     THEN eventData
     ELSE WaveformLoop(raw, wordIndex, eventData, 0, numWords,
                       dualChInfo.dualTraceEnabled)

PHA1DecodeEventDirect(raw, totalSizeWords, wordIndex, dualChInfo, timeStep, moduleNumber) ==
  LET headerOk == IsValidIndex(totalSizeWords, wordIndex)
      timeTagWord == ReadWord(raw, wordIndex)
      triggerTimeTag == Bits(timeTagWord, 0, 31)
      waveformSize == dualChInfo.numSamplesWave * kSamplesPerGroup
      i1 == wordIndex + 1
      extrasOk == ~dualChInfo.extras2Enabled \/ IsValidIndex(totalSizeWords, i1)
      extrasWord == ReadWord(raw, i1)
      i2 == IF dualChInfo.extras2Enabled THEN i1 + 1 ELSE i1
      extras == PHA1DecodeExtrasWord(extrasWord, dualChInfo.extraOption)
      extendedTime == extras.extendedTime
      fineTimeStamp == extras.fineTimeStamp
      numWords == dualChInfo.numSamplesWave * kSamplesPerWord
      i3 == IF dualChInfo.samplesEnabled /\ waveformSize > 0
               /\ GetRemainingWords(totalSizeWords, i2) >= numWords
            THEN i2 + numWords ELSE i2
      energyOk == ~dualChInfo.energyEnabled \/ IsValidIndex(totalSizeWords, i3)
      i4 == IF dualChInfo.energyEnabled THEN i3 + 1 ELSE i3
      e0 == [EventData(waveformSize) EXCEPT
               !.channel = IF kChannelFlagShift \in timeTagWord THEN 1 ELSE 0,
               !.module = moduleNumber,
               !.timeResolution = timeStep,
               !.flags = IF dualChInfo.extras2Enabled THEN extras.flags ELSE 0,
               !.timeStampNs =
                  IF dualChInfo.extras2Enabled
                  THEN (triggerTimeTag + ShiftLeft(extendedTime, 31))
                          * timeStep * kFineTimeScale
                       + fineTimeStamp * timeStep
                  ELSE triggerTimeTag * timeStep * kFineTimeScale]
      ew == IF dualChInfo.samplesEnabled /\ waveformSize > 0
            THEN PHA1DecodeWaveform(raw, totalSizeWords, i2, dualChInfo, e0)
            ELSE e0
      e1 == IF dualChInfo.energyEnabled
            THEN PHA1DecodeEnergyWord(ReadWord(raw, i3), ew) ELSE ew
  IN IF ~headerOk THEN [ok |-> FALSE, event |-> e0, wordIndex |-> wordIndex]
     ELSE IF ~extrasOk THEN [ok |-> FALSE, event |-> e0, wordIndex |-> i1]
     ELSE IF ~energyOk THEN [ok |-> FALSE, event |-> e0, wordIndex |-> i3]
     ELSE [ok |-> TRUE, event |-> e1, wordIndex |-> i4]

RECURSIVE PHA1EventLoop(_, _, _, _, _, _, _, _, _)
PHA1EventLoop(raw, totalSizeWords, scan, channelEndIndex, boardEndIndex, dualChInfo, pair, timeStep, moduleNumber) ==
  IF scan.wordIndex < channelEndIndex /\ scan.wordIndex < boardEndIndex
  THEN LET d == PHA1DecodeEventDirect(raw, totalSizeWords, scan.wordIndex,
                                      dualChInfo, timeStep, moduleNumber)
           eventData == [d.event EXCEPT !.channel = @ + pair * 2,
                                        !.firstWord = scan.wordIndex,
                                        !.nextWord = d.wordIndex,
                                        !.pairHeader = dualChInfo.wordIndex - 2,
                                        !.blockEnd = channelEndIndex,
                                        !.boardEnd = boardEndIndex]
       IN PHA1EventLoop(raw, totalSizeWords,
            Scan(d.wordIndex,
                 IF d.ok THEN PushBack(scan.events, eventData)
                 ELSE scan.events, FALSE),
            channelEndIndex, boardEndIndex, dualChInfo, pair, timeStep,
            moduleNumber)
  ELSE scan

\* ProcessChannelPairs: the scan and the DecoderResult
RECURSIVE PHA1ProcessChannelPairs(_, _, _, _, _, _, _, _)
PHA1ProcessChannelPairs(raw, totalSizeWords, scan, pair, boardEndIndex, activeMask, timeStep, moduleNumber) ==
  IF pair >= 8 THEN [scan |-> scan, result |-> "Success"]
  ELSE IF pair \notin activeMask
  THEN PHA1ProcessChannelPairs(raw, totalSizeWords, scan, pair + 1,
                               boardEndIndex, activeMask, timeStep,
                               moduleNumber)
  ELSE IF scan.wordIndex >= boardEndIndex
  THEN [scan |-> scan, result |-> "OutOfBounds"]
  ELSE LET h == PHA1DecodeDualChannelHeader(raw, totalSizeWords,
                                            scan.wordIndex)
           end0 == h.wordIndex - ChannelHeader_kHeaderSizeWords
                     + h.aggregateSize
           channelEndIndex ==
             IF ValidateBlockBounds(end0, boardEndIndex, totalSizeWords)
                  # "Success"
             THEN boardEndIndex ELSE end0
           afterHeader == Scan(h.wordIndex, scan.events, FALSE)
       IN IF h.result # "Success"
          THEN [scan |-> afterHeader, result |-> h.result]
          ELSE PHA1ProcessChannelPairs(raw, totalSizeWords,
                 PHA1EventLoop(raw, totalSizeWords, afterHeader,
                               channelEndIndex, boardEndIndex, h, pair,
                               timeStep, moduleNumber),
                 pair + 1, boardEndIndex, activeMask, timeStep, moduleNumber)

PHA1ProcessBoardAggregateBlock(raw, totalSizeWords, scan, timeStep, moduleNumber) ==
  LET boardInfo == PHA1DecodeBoardHeader(raw, totalSizeWords, scan.wordIndex)
      afterHeader == Scan(boardInfo.wordIndex, scan.events, FALSE)
      boardEndIndex == boardInfo.wordIndex - kHeaderSizeWords
                         + boardInfo.aggregateSize
      bounds == ValidateBlockBounds(boardInfo.wordIndex, boardEndIndex,
                                    totalSizeWords)
  IN IF boardInfo.result # "Success"
     THEN [scan |-> afterHeader, result |-> boardInfo.result]
     ELSE IF bounds # "Success" THEN [scan |-> afterHeader, result |-> bounds]
     ELSE PHA1ProcessChannelPairs(raw, totalSizeWords, afterHeader, 0,
                                  boardEndIndex, boardInfo.dualChannelMask,
                                  timeStep, moduleNumber)

\* one iteration of while (wordIndex < totalDataSize) in ProcessEventData
PHA1ProcessBlock(raw, scan, totalDataSize, timeStep, moduleNumber) ==
  LET b == PHA1ProcessBoardAggregateBlock(raw, totalDataSize, scan, timeStep,
                                          moduleNumber)
  IN [scan |-> b.scan, break |-> b.result = "CorruptedData"]

\* one iteration of the for loop of PSD2Decoder::ProcessEventData
PSD2ProcessBlock(raw, scan, timeStep, moduleNumber) ==
  LET d == DecodeEventPair(raw, scan.wordIndex, timeStep, moduleNumber)
  IN [scan |-> Scan(d.wordIndex, PushBack(scan.events, d.event),
                    scan.undefined \/ d.undefined),
      break |-> FALSE]

\* ------------------------------------------------- input data, 32-bit words
BoardHeaderWord(type, aggregateSize) ==
  Enc(type, kBoardHeaderTypeShift, 4) \cup Enc(aggregateSize, 0, 28)

ChannelSizeWord(aggregateSize) ==
  {kDualChannelHeaderShift} \cup Enc(aggregateSize, 0, 22)

\* extras and charge/energy enabled, extra option 2, no samples
ChannelConfigWord ==
  {kExtrasEnabledShift, kChargeEnabledShift}
    \cup Enc(kExtendedFlagsFineTT, kExtraOptionShift, 3)

TimeTagWord(odd, triggerTimeTag) ==
  (IF odd THEN {kChannelFlagShift} ELSE {}) \cup Enc(triggerTimeTag, 0, 31)

Words32(words) == RawData(words, Len(words) * Dig1_kWordSize)

\* a header-only fragment: fewer than four words
G1Short == Words32(<<BoardHeaderWord(kBoardHeaderTypeData, 3), {}, {}>>)
\* one board aggregate, pair 0, two events with trigger time tags 7 then 3
G1TwoEvents ==
  Words32(<<BoardHeaderWord(kBoardHeaderTypeData, 12), {0}, {}, {},
            ChannelSizeWord(8), ChannelConfigWord,
            TimeTagWord(FALSE, 7), Enc(512, 0, 10), Enc(42, 0, 15),
            TimeTagWord(TRUE, 3), {}, Enc(43, 0, 15)>>)
\* an empty board aggregate followed by one zero word, in a read-out buffer
\* that is larger than the bytes received
G1Tail ==
  RawData(<<BoardHeaderWord(kBoardHeaderTypeData, 4), {}, {}, {},
            {}, {}, {}, {}>>, 5 * Dig1_kWordSize)

\* 16 words, large enough for CheckDataType to pass it whatever its header
\* type, which is 0xF
G1BadHeader ==
  RawData(<<BoardHeaderWord(15, 16), Enc(1, 0, 8), {}, {},
            ChannelSizeWord(12), ChannelConfigWord,
            TimeTagWord(FALSE, 9), {}, Enc(41, 0, 15),
            {}, {}, {}, {}, {}, {}, {}>>, 16 * Dig1_kWordSize)

Gen1Inputs == {G1Short, G1TwoEvents, G1Tail, G1BadHeader}

\* ------------------------------------------------------------ engine state
VARIABLES
  kind,           \* the decoder class: "PSD2", "Dig1" or "PHA1"
  nThreads,       \* fDecodeThreads.size()
  fDecodeFlag, fIsRunning, fLastCounter, fTimeStep, fModuleNumber,
  fRawDataQueue,  \* deque of [id, raw]
  fRawDataMutex,  \* 0 when free, else the worker holding it
  fEventDataVec,
  fEventDataMutex,\* 0 when free, 1 while GetEventData holds it
  wpc, wRaw, wLocal,      \* per worker: position, rawData, ProcessEventData locals
  ppc, pRaw,              \* the read-out thread inside AddData
  dpc, dData,             \* the consumer inside GetEventData
  dtor, joinIdx,          \* the owner inside the destructor
  alive,                  \* the process has not been terminated
  nextId, addLog, popped, stored, drained,  \* history of the calls
  counterLog,             \* the headers ValidateDataHeader accepted
  config,                 \* the parameters handed to Digitizer::Initialize
  fDigitizerImpl,         \* Digitizer::fDigitizerImpl
  fNThreads,              \* fNThreads of the implementation, a uint32_t
  calls,                  \* the calls made on the Digitizer, with results
  checked,                \* the last CheckDataType call made on its own
  scanned,                \* one DecodeData call made on its own
  qpc, qRaw,              \* a second thread inside AddData
  sLogLevel, sDebugEnabled,  \* the static members of DecoderLogger
  logged,                 \* the Log calls made, each with what it wrote
  reader                  \* a MemoryReader, an index and the last result

engineVars == <<kind, nThreads, fDecodeFlag, fIsRunning, fLastCounter,
                fTimeStep, fModuleNumber, fRawDataQueue, fRawDataMutex,
                fEventDataVec, fEventDataMutex>>
workerVars == <<wpc, wRaw, wLocal>>
producerVars == <<ppc, pRaw>>
consumerVars == <<dpc, dData>>
ownerVars == <<dtor, joinIdx>>
historyVars == <<nextId, addLog, popped, stored, drained, counterLog>>
facadeVars == <<config, fDigitizerImpl, fNThreads, calls>>
auxVars == <<qpc, qRaw, sLogLevel, sDebugEnabled, logged, reader>>
vars == <<engineVars, workerVars, producerVars, consumerVars, ownerVars,
          alive, historyVars, facadeVars, checked, scanned, auxVars>>

Kinds == {"PSD2", "Dig1", "PHA1"}
Workers == 1..nThreads
NoRaw == [id |-> 0, raw |-> RawData(<<>>, 0)]
NoLocal ==
  [wordIndex |-> 0, totalSize |-> 0, events |-> <<>>, break |-> FALSE]

\* a gen-1 constructor that leaves fIsRunning at its initialiser
StartsRunning_never(k) == FALSE

\* fIsRunning when the constructor is over: the gen-1 constructors set it
StartsRunning(k) == k # "PSD2"

\* the constructors: clamp nThreads, fIsRunning (gen-1 starts running),
\* fDecodeFlag = true, spawn the threads
Constructor(k, requested) ==
  /\ kind = k
  /\ nThreads = IF requested < 1 THEN 1 ELSE requested
  /\ fDecodeFlag = TRUE
  /\ fIsRunning = StartsRunning(k)
  /\ fLastCounter = 0
  /\ fTimeStep = 1
  /\ fModuleNumber = 0
  /\ fRawDataQueue = <<>>
  /\ fRawDataMutex = 0
  /\ fEventDataVec = <<>>
  /\ fEventDataMutex = 0
  /\ wpc = [w \in Workers |-> "check"]
  /\ wRaw = [w \in Workers |-> NoRaw]
  /\ wLocal = [w \in Workers |-> NoLocal]

\* everything but the engine proper, after construction
Idle ==
  /\ ppc = "idle"
  /\ pRaw = NoRaw
  /\ dpc = "idle"
  /\ dData = <<>>
  /\ dtor = "live"
  /\ joinIdx = 0
  /\ alive = TRUE
  /\ nextId = 0
  /\ addLog = <<>>
  /\ popped = {}
  /\ stored = <<>>
  /\ drained = <<>>
  /\ counterLog = {}

\* a parameter map with no parameter set
NoConfig == [URL |-> <<>>, Type |-> <<>>, Threads |-> <<>>]

\* Digitizer::Digitizer, before any call
NoFacade ==
  /\ config = NoConfig
  /\ fDigitizerImpl = "nullptr"
  /\ fNThreads = {0}
  /\ calls = <<>>

NoCheck == [raw |-> RawData(<<>>, 0), type |-> "none"]
NoScan == [pc |-> "none"]
NoReader == [fTotalSizeWords |-> {}, wordIndex |-> {}, from |-> {},
             count |-> {}, result |-> "none"]

\* the second submitter outside AddData, the logger as its static members
\* are initialised, no MemoryReader
NoAux ==
  /\ qpc = "idle"
  /\ qRaw = NoRaw
  /\ sLogLevel = "Warning"
  /\ sDebugEnabled = FALSE
  /\ logged = <<>>
  /\ reader = NoReader

Init ==
  /\ \E k \in Kinds, requested \in 0..MaxThreads : Constructor(k, requested)
  /\ Idle
  /\ NoFacade
  /\ checked = NoCheck
  /\ scanned = NoScan
  /\ NoAux

\* ------------------------------------------------------------------ AddData
WordSize == IF kind = "PSD2" THEN kWordSize ELSE Dig1_kWordSize

Inputs == IF kind = "PSD2" THEN RawInputs ELSE Gen1Inputs

\* the buffer as CheckDataType and the queue see it
Prepared(raw) == IF kind = "PSD2" THEN SwapEndian(raw) ELSE raw

\* a classifier with no minimum size
Classify_noMinimum(raw) ==
  IF raw.size % WordSize # 0 THEN "Unknown" ELSE "Event"

Classify(raw) ==
  IF raw.size % WordSize # 0 THEN "Unknown"
  ELSE IF kind = "PSD2" THEN CheckDataType(Prepared(raw))
  ELSE IF kind = "Dig1" THEN Dig1CheckDataType(raw)
  ELSE PHA1CheckDataType(raw)

\* exit(1) in the Unknown branch of PSD2Decoder::AddData
Exits(raw) ==
  kind = "PSD2" /\ raw.size % WordSize = 0 /\ Classify(raw) = "Unknown"

\* an AddData that does not test fIsRunning
Enqueues_notTestingRunning(dataType, isRunning) == dataType = "Event"
Enqueues(dataType, isRunning) == dataType = "Event" /\ isRunning

\* an AddData whose Stop branch leaves fIsRunning alone
RunningAfter_stopIgnored(dataType, isRunning) ==
  IF dataType = "Start" THEN TRUE ELSE isRunning
RunningAfter(dataType, isRunning) ==
  IF dataType = "Start" THEN TRUE
  ELSE IF dataType = "Stop" THEN FALSE
  ELSE isRunning

\* AddData up to the point where it needs fRawDataMutex
AddDataCall(raw) ==
  LET dataType == Classify(raw)
      id == nextId + 1
  IN /\ alive /\ dtor = "live" /\ ppc = "idle" /\ nextId < MaxSubmits
     /\ nextId' = id
     /\ addLog' = Append(addLog,
          [id |-> id, raw |-> raw, type |-> dataType, saw |-> fIsRunning,
           enq |-> Enqueues(dataType, fIsRunning), exited |-> Exits(raw)])
     /\ alive' = ~Exits(raw)
     /\ fIsRunning' = RunningAfter(dataType, fIsRunning)
     /\ IF Enqueues(dataType, fIsRunning)
        THEN ppc' = "push" /\ pRaw' = [id |-> id, raw |-> Prepared(raw)]
        ELSE UNCHANGED producerVars
     /\ UNCHANGED <<facadeVars, checked, scanned, auxVars>>
     /\ UNCHANGED <<kind, nThreads, fDecodeFlag, fLastCounter, fTimeStep,
                    fModuleNumber, fRawDataQueue, fRawDataMutex,
                    fEventDataVec, fEventDataMutex, workerVars, consumerVars,
                    ownerVars, popped, stored, drained, counterLog>>

\* lock_guard(fRawDataMutex); push_back; return
AddDataPush ==
  /\ alive /\ ppc = "push" /\ fRawDataMutex = 0
  /\ fRawDataQueue' = Append(fRawDataQueue, pRaw)
  /\ ppc' = "idle"
  /\ pRaw' = NoRaw
  /\ UNCHANGED <<facadeVars, checked, scanned, auxVars>>
  /\ UNCHANGED <<kind, nThreads, fDecodeFlag, fIsRunning, fLastCounter,
                 fTimeStep, fModuleNumber, fRawDataMutex, fEventDataVec,
                 fEventDataMutex, workerVars, consumerVars, ownerVars, alive,
                 historyVars>>

\* ------------------------------------------------------------- DecodeThread
\* while (fDecodeFlag), reached at once or, in PSD2Decoder and PHA1Decoder
\* after an empty queue, once sleep_for(1 ms) outside the lock scope is over
WLoopTest(w) ==
  /\ alive /\ wpc[w] = "check"
  /\ wpc' = [wpc EXCEPT ![w] = IF fDecodeFlag THEN "lock" ELSE "done"]
  /\ UNCHANGED <<facadeVars, checked, scanned, auxVars>>
  /\ UNCHANGED <<engineVars, wRaw, wLocal, producerVars, consumerVars,
                 ownerVars, alive, historyVars>>

\* std::lock_guard<std::mutex> lock(fRawDataMutex)
WLock(w) ==
  /\ alive /\ wpc[w] = "lock" /\ fRawDataMutex = 0
  /\ fRawDataMutex' = w
  /\ wpc' = [wpc EXCEPT ![w] = "locked"]
  /\ UNCHANGED <<facadeVars, checked, scanned, auxVars>>
  /\ UNCHANGED <<kind, nThreads, fDecodeFlag, fIsRunning, fLastCounter,
                 fTimeStep, fModuleNumber, fRawDataQueue, fEventDataVec,
                 fEventDataMutex, wRaw, wLocal, producerVars, consumerVars,
                 ownerVars, alive, historyVars>>

\* a thread that keeps the lock when it finds the queue empty
WPop_lockKeptWhenEmpty(w) ==
  /\ alive /\ wpc[w] = "locked"
  /\ IF fRawDataQueue = <<>>
     THEN /\ wpc' = [wpc EXCEPT ![w] = "check"]
          /\ UNCHANGED <<fRawDataQueue, fRawDataMutex, wRaw, popped>>
     ELSE /\ wRaw' = [wRaw EXCEPT ![w] = Head(fRawDataQueue)]
          /\ fRawDataQueue' = Tail(fRawDataQueue)
          /\ fRawDataMutex' = 0
          /\ popped' = popped \cup {Head(fRawDataQueue).id}
          /\ wpc' = [wpc EXCEPT ![w] = "decode"]
  /\ UNCHANGED <<facadeVars, checked, scanned, auxVars>>
  /\ UNCHANGED <<kind, nThreads, fDecodeFlag, fIsRunning, fLastCounter,
                 fTimeStep, fModuleNumber, fEventDataVec, fEventDataMutex,
                 wLocal, producerVars, consumerVars, ownerVars, alive,
                 nextId, addLog, stored, drained, counterLog>>

\* a thread that reads the front buffer and leaves it on the queue
WPop_frontKept(w) ==
  /\ alive /\ wpc[w] = "locked"
  /\ fRawDataMutex' = 0
  /\ IF fRawDataQueue = <<>>
     THEN /\ wpc' = [wpc EXCEPT ![w] = "check"]
          /\ UNCHANGED <<fRawDataQueue, wRaw, popped>>
     ELSE /\ wRaw' = [wRaw EXCEPT ![w] = Head(fRawDataQueue)]
          /\ fRawDataQueue' = fRawDataQueue
          /\ popped' = popped \cup {Head(fRawDataQueue).id}
          /\ wpc' = [wpc EXCEPT ![w] = "decode"]
  /\ UNCHANGED <<facadeVars, checked, scanned, auxVars>>
  /\ UNCHANGED <<kind, nThreads, fDecodeFlag, fIsRunning, fLastCounter,
                 fTimeStep, fModuleNumber, fEventDataVec, fEventDataMutex,
                 wLocal, producerVars, consumerVars, ownerVars, alive,
                 nextId, addLog, stored, drained, counterLog>>

\* the guarded block: empty check, front/pop_front, end of the lock scope
WPop(w) ==
  /\ alive /\ wpc[w] = "locked"
  /\ fRawDataMutex' = 0
  /\ IF fRawDataQueue = <<>>
     THEN /\ wpc' = [wpc EXCEPT ![w] = "check"]
          /\ UNCHANGED <<fRawDataQueue, wRaw, popped>>
     ELSE /\ wRaw' = [wRaw EXCEPT ![w] = Head(fRawDataQueue)]
          /\ fRawDataQueue' = Tail(fRawDataQueue)
          /\ popped' = popped \cup {Head(fRawDataQueue).id}
          /\ wpc' = [wpc EXCEPT ![w] = "decode"]
  /\ UNCHANGED <<facadeVars, checked, scanned, auxVars>>
  /\ UNCHANGED <<kind, nThreads, fDecodeFlag, fIsRunning, fLastCounter,
                 fTimeStep, fModuleNumber, fEventDataVec, fEventDataMutex,
                 wLocal, producerVars, consumerVars, ownerVars, alive,
                 nextId, addLog, stored, drained, counterLog>>

\* DecodeData without the test of the header type
HeaderAccepted_typeIgnored(raw) ==
  IF kind = "PSD2" THEN TRUE
  ELSE IF kind = "Dig1" THEN raw.size >= 4 * Dig1_kWordSize
  ELSE ValidateRawData(raw.size) = "Success"

\* DecodeData: does the buffer pass the checks made before ProcessEventData
HeaderAccepted(raw) ==
  IF kind = "PSD2" THEN ValidateDataHeader(ReadWord(raw, 0))
  ELSE IF kind = "Dig1"
  THEN raw.size >= 4 * Dig1_kWordSize
         /\ Dig1ValidateDataHeader(ReadWord(raw, 0))
  ELSE ValidateRawData(raw.size) = "Success"
         /\ PHA1ValidateDataHeader(ReadWord(raw, 0)) = "Success"

\* the locals ProcessEventData starts with
StartLocal(raw) ==
  IF kind = "PSD2"
  THEN [wordIndex |-> 1, totalSize |-> TotalSize(ReadWord(raw, 0)),
        events |-> <<>>, break |-> FALSE]
  ELSE [wordIndex |-> 0, totalSize |-> raw.size \div Dig1_kWordSize,
        events |-> <<>>, break |-> FALSE]

\* the continuity test of ValidateDataHeader on the aggregate counter
GapWarning(aggregateCounter, lastCounter) ==
  aggregateCounter # 0 /\ aggregateCounter # lastCounter + 1

\* the single-worker guard around the continuity test
ChecksCounter == kind = "PSD2" /\ nThreads = 1

WDecodeData(w) ==
  /\ alive /\ wpc[w] = "decode"
  /\ IF HeaderAccepted(wRaw[w].raw)
     THEN /\ wpc' = [wpc EXCEPT ![w] = "process"]
          /\ wLocal' = [wLocal EXCEPT ![w] = StartLocal(wRaw[w].raw)]
          /\ fLastCounter' = IF ChecksCounter
                             THEN AggregateCounter(ReadWord(wRaw[w].raw, 0))
                             ELSE fLastCounter
          /\ counterLog' =
               IF kind = "PSD2"
               THEN counterLog \cup
                      {[id |-> wRaw[w].id,
                        counter |-> AggregateCounter(ReadWord(wRaw[w].raw, 0)),
                        last |-> fLastCounter,
                        first |-> counterLog = {},
                        warned |->
                          ChecksCounter
                            /\ GapWarning(
                                 AggregateCounter(ReadWord(wRaw[w].raw, 0)),
                                 fLastCounter)]}
               ELSE counterLog
          /\ UNCHANGED wRaw
     ELSE /\ wpc' = [wpc EXCEPT ![w] = "check"]
          /\ wRaw' = [wRaw EXCEPT ![w] = NoRaw]
          /\ UNCHANGED <<wLocal, fLastCounter, counterLog>>
  /\ UNCHANGED <<facadeVars, checked, scanned, auxVars>>
  /\ UNCHANGED <<kind, nThreads, fDecodeFlag, fIsRunning, fTimeStep,
                 fModuleNumber, fRawDataQueue, fRawDataMutex, fEventDataVec,
                 fEventDataMutex, producerVars, consumerVars, ownerVars,
                 alive, nextId, addLog, popped, stored, drained>>

ProcessBlock(raw, scan, totalSize) ==
  IF kind = "PSD2" THEN PSD2ProcessBlock(raw, scan, fTimeStep, fModuleNumber)
  ELSE IF kind = "Dig1"
  THEN Dig1ProcessBlock(raw, scan, totalSize, fTimeStep, fModuleNumber)
  ELSE PHA1ProcessBlock(raw, scan, totalSize, fTimeStep, fModuleNumber)

LoopRuns(local) == local.wordIndex < local.totalSize /\ ~local.break

\* one iteration of the scan loop of ProcessEventData; a read past the
\* vector either kills the process or goes on with what was read
WProcessStep(w) ==
  /\ alive /\ wpc[w] = "process" /\ LoopRuns(wLocal[w])
  /\ LET local == wLocal[w]
         b == ProcessBlock(wRaw[w].raw,
                           Scan(local.wordIndex, local.events, FALSE),
                           local.totalSize)
     IN \E survives \in (IF b.scan.undefined THEN BOOLEAN ELSE {TRUE}) :
          /\ alive' = survives
          /\ wLocal' = [wLocal EXCEPT ![w] =
               [wordIndex |-> b.scan.wordIndex, totalSize |-> local.totalSize,
                events |-> b.scan.events, break |-> b.break]]
  /\ UNCHANGED <<facadeVars, checked, scanned, auxVars>>
  /\ UNCHANGED <<engineVars, wpc, wRaw, producerVars, consumerVars,
                 ownerVars, historyVars>>

\* the results std::sort may leave: every ordering by timeStampNs
SortedByTime(events) ==
  \A i, j \in 1..Len(events) :
    i < j => events[i].timeStampNs <= events[j].timeStampNs

Orderings(events) ==
  {[i \in 1..Len(events) |-> events[f[i]]] :
     f \in {g \in [1..Len(events) -> 1..Len(events)] :
              \A i, j \in 1..Len(events) : i # j => g[i] # g[j]}}

\* a sort that leaves the decoding order
StdSort_unsorted(events) == {events}
StdSort(events) == {s \in Orderings(events) : SortedByTime(s)}

WithSrc(events, id) ==
  [i \in 1..Len(events) |-> [events[i] EXCEPT !.src = id]]

\* an insert that does not take fEventDataMutex
MayInsert_unlocked == TRUE
MayInsert == fEventDataMutex = 0

\* end of ProcessEventData: sort, then insert under fEventDataMutex, then
\* back to the head of the thread loop
WStore(w) ==
  /\ alive /\ wpc[w] = "process" /\ ~LoopRuns(wLocal[w])
  /\ MayInsert
  /\ \E sorted \in StdSort(WithSrc(wLocal[w].events, wRaw[w].id)) :
       /\ fEventDataVec' = fEventDataVec \o sorted
       /\ stored' = stored \o sorted
  /\ wpc' = [wpc EXCEPT ![w] = "check"]
  /\ wRaw' = [wRaw EXCEPT ![w] = NoRaw]
  /\ wLocal' = [wLocal EXCEPT ![w] = NoLocal]
  /\ UNCHANGED <<facadeVars, checked, scanned, auxVars>>
  /\ UNCHANGED <<kind, nThreads, fDecodeFlag, fIsRunning, fLastCounter,
                 fTimeStep, fModuleNumber, fRawDataQueue, fRawDataMutex,
                 fEventDataMutex, producerVars, consumerVars, ownerVars,
                 alive, nextId, addLog, popped, drained, counterLog>>

\* ------------------------------------------------------------- GetEventData
\* lock fEventDataMutex; data->swap(*fEventDataVec)
GetEventDataSwap ==
  /\ alive /\ dtor = "live" /\ dpc = "idle" /\ Len(drained) < MaxDrains
  /\ fEventDataMutex = 0
  /\ fEventDataMutex' = 1
  /\ dData' = fEventDataVec
  /\ fEventDataVec' = <<>>
  /\ dpc' = "swapped"
  /\ UNCHANGED <<facadeVars, checked, scanned, auxVars>>
  /\ UNCHANGED <<kind, nThreads, fDecodeFlag, fIsRunning, fLastCounter,
                 fTimeStep, fModuleNumber, fRawDataQueue, fRawDataMutex,
                 workerVars, producerVars, ownerVars, alive, historyVars>>

\* fEventDataVec->clear(); unlock; return data
GetEventDataClear ==
  /\ alive /\ dpc = "swapped"
  /\ fEventDataVec' = <<>>
  /\ fEventDataMutex' = 0
  /\ drained' = Append(drained, dData)
  /\ dData' = <<>>
  /\ dpc' = "idle"
  /\ UNCHANGED <<facadeVars, checked, scanned, auxVars>>
  /\ UNCHANGED <<kind, nThreads, fDecodeFlag, fIsRunning, fLastCounter,
                 fTimeStep, fModuleNumber, fRawDataQueue, fRawDataMutex,
                 workerVars, producerVars, ownerVars, alive, nextId, addLog,
                 popped, stored, counterLog>>

\* --------------------------------------------------------------- destructor
\* fDecodeFlag = false
Destroy ==
  /\ alive /\ dtor = "live" /\ ppc = "idle" /\ dpc = "idle"
  /\ fDecodeFlag' = FALSE
  /\ dtor' = "joining"
  /\ joinIdx' = 1
  /\ UNCHANGED <<facadeVars, checked, scanned, auxVars>>
  /\ UNCHANGED <<kind, nThreads, fIsRunning, fLastCounter, fTimeStep,
                 fModuleNumber, fRawDataQueue, fRawDataMutex, fEventDataVec,
                 fEventDataMutex, workerVars, producerVars, consumerVars,
                 alive, historyVars>>

\* thread.join() of fDecodeThreads[joinIdx]; after the last one the members,
\* the queue among them, are destroyed
Join ==
  /\ alive /\ dtor = "joining" /\ wpc[joinIdx] = "done"
  /\ IF joinIdx = nThreads
     THEN dtor' = "destroyed" /\ fRawDataQueue' = <<>> /\ UNCHANGED joinIdx
     ELSE joinIdx' = joinIdx + 1 /\ UNCHANGED <<dtor, fRawDataQueue>>
  /\ UNCHANGED <<facadeVars, checked, scanned, auxVars>>
  /\ UNCHANGED <<kind, nThreads, fDecodeFlag, fIsRunning, fLastCounter,
                 fTimeStep, fModuleNumber, fRawDataMutex, fEventDataVec,
                 fEventDataMutex, workerVars, producerVars, consumerVars,
                 alive, historyVars>>

Next ==
  \/ \E raw \in Inputs : AddDataCall(raw)
  \/ AddDataPush
  \/ \E w \in Workers : WLoopTest(w)
  \/ \E w \in Workers : WLock(w)
  \/ \E w \in Workers : WPop(w)
  \/ \E w \in Workers : WDecodeData(w)
  \/ \E w \in Workers : WProcessStep(w)
  \/ \E w \in Workers : WStore(w)
  \/ GetEventDataSwap
  \/ GetEventDataClear
  \/ Destroy
  \/ Join

Spec == Init /\ [][Next]_vars

\* ------------------------------------------------- the configuration setters
TimeSteps == {1, 2}
ModuleNumbers == {0, 1}

\* SetTimeStep of PSD2Decoder and Dig1Decoder: one store to the member
SetTimeStep(timeStep) ==
  /\ alive /\ dtor = "live" /\ fTimeStep # timeStep
  /\ fTimeStep' = timeStep
  /\ UNCHANGED <<facadeVars, checked, scanned, auxVars>>
  /\ UNCHANGED <<kind, nThreads, fDecodeFlag, fIsRunning, fLastCounter,
                 fModuleNumber, fRawDataQueue, fRawDataMutex, fEventDataVec,
                 fEventDataMutex, workerVars, producerVars, consumerVars,
                 ownerVars, alive, historyVars>>

SetModuleNumber(moduleNumber) ==
  /\ alive /\ dtor = "live" /\ fModuleNumber # moduleNumber
  /\ fModuleNumber' = moduleNumber
  /\ UNCHANGED <<facadeVars, checked, scanned, auxVars>>
  /\ UNCHANGED <<kind, nThreads, fDecodeFlag, fIsRunning, fLastCounter,
                 fTimeStep, fRawDataQueue, fRawDataMutex, fEventDataVec,
                 fEventDataMutex, workerVars, producerVars, consumerVars,
                 ownerVars, alive, historyVars>>

\* the buffers submitted while the setters are exercised
SetterInputs ==
  IF kind = "PSD2" THEN {StartSignal, TwoEvents} ELSE {G1TwoEvents}

\* the decoders whose setters are single stores, each with one worker
InitSetters ==
  /\ \E k \in {"PSD2", "Dig1"} : Constructor(k, 1)
  /\ Idle
  /\ NoFacade
  /\ checked = NoCheck
  /\ scanned = NoScan
  /\ NoAux

NextSetters ==
  \/ \E raw \in SetterInputs : AddDataCall(raw)
  \/ AddDataPush
  \/ \E w \in Workers : WLoopTest(w)
  \/ \E w \in Workers : WLock(w)
  \/ \E w \in Workers : WPop(w)
  \/ \E w \in Workers : WDecodeData(w)
  \/ \E w \in Workers : WProcessStep(w)
  \/ \E w \in Workers : WStore(w)
  \/ \E timeStep \in TimeSteps : SetTimeStep(timeStep)
  \/ \E moduleNumber \in ModuleNumbers : SetModuleNumber(moduleNumber)

SpecSetters == InitSetters /\ [][NextSetters]_vars

\* ------------------------------------------------- CheckDataType on its own
\* gen-2 buffers of 3 and 4 words that carry nothing but a top byte per word
Signals ==
  {Wire(<<TopByte(a), TopByte(b), TopByte(c)>>) :
     a \in {48, 50, 32}, b \in {0, 16, 2}, c \in {1, 17, 0}}
  \cup {Wire(<<TopByte(a), TopByte(b), TopByte(c), TopByte(d)>>) :
          a \in {48, 50, 32}, b \in {2, 18, 0}, c \in {1, 17}, d \in {1, 17, 0}}
  \cup {Wire(<<TopByte(48), TopByte(2), TopByte(1), TopByte(1), {}>>)}

\* gen-1 buffers of n zero words behind a first word of the given header type
Gen1Block(type, n) ==
  Words32([i \in 1..n |-> IF i = 1 THEN BoardHeaderWord(type, n) ELSE {}])

Gen1Blocks ==
  {Gen1Block(type, n) : type \in {0, 10, 15}, n \in {3, 4, 15, 16}}
  \cup {[Gen1Block(type, 5) EXCEPT !.size = 18] : type \in {10, 15}}

ClassifierInputs ==
  IF kind = "PSD2" THEN RawInputs \cup Signals ELSE Gen1Inputs \cup Gen1Blocks

\* one call of the classifier as AddData makes it: the buffer it looked at
\* and the tag it gave
CheckDataTypeCall(raw) ==
  /\ checked' = [raw |-> Prepared(raw), type |-> Classify(raw)]
  /\ UNCHANGED <<engineVars, workerVars, producerVars, consumerVars,
                 ownerVars, alive, historyVars, facadeVars, scanned, auxVars>>

InitCheckDataType ==
  /\ \E k \in Kinds : Constructor(k, 1)
  /\ Idle
  /\ NoFacade
  /\ checked = NoCheck
  /\ scanned = NoScan
  /\ NoAux

NextCheckDataType == \E raw \in ClassifierInputs : CheckDataTypeCall(raw)

SpecCheckDataType == InitCheckDataType /\ [][NextCheckDataType]_vars

\* --------------------------------------- the Digitizer facade and its factory
\* strings are sequences of characters
MaxCalls == 3

LowerCase ==
  <<"a", "b", "c", "d", "e", "f", "g", "h", "i", "j", "k", "l", "m",
    "n", "o", "p", "q", "r", "s", "t", "u", "v", "w", "x", "y", "z">>
UpperCase ==
  <<"A", "B", "C", "D", "E", "F", "G", "H", "I", "J", "K", "L", "M",
    "N", "O", "P", "Q", "R", "S", "T", "U", "V", "W", "X", "Y", "Z">>
Digits == <<"0", "1", "2", "3", "4", "5", "6", "7", "8", "9">>

\* the position of character c in a table, 0 when it is not in it
IndexIn(c, table) ==
  IF \E i \in 1..Len(table) : table[i] = c
  THEN CHOOSE i \in 1..Len(table) : table[i] = c
  ELSE 0

toupper(c) ==
  IF IndexIn(c, LowerCase) # 0 THEN UpperCase[IndexIn(c, LowerCase)] ELSE c
tolower(c) ==
  IF IndexIn(c, UpperCase) # 0 THEN LowerCase[IndexIn(c, UpperCase)] ELSE c

\* std::transform(str.begin(), str.end(), str.begin(), ::toupper)
TransformUpper(str) == [i \in 1..Len(str) |-> toupper(str[i])]
TransformLower(str) == [i \in 1..Len(str) |-> tolower(str[i])]

\* str.find(prefix) == 0
FindAtZero(str, prefix) ==
  Len(str) >= Len(prefix) /\ SubSeq(str, 1, Len(prefix)) = prefix

\* the if-chain of CreateDigitizer on the upper-cased Type
FirmwareTypes == {<<"P", "S", "D", "1">>, <<"P", "S", "D", "2">>, <<"P", "H", "A", "1">>, <<"P", "H", "A", "2">>, <<"Q", "D", "C", "1">>, <<"S", "C", "O", "P", "E", "1">>, <<"S", "C", "O", "P", "E", "2">>}
Unknown == <<"U", "N", "K", "N", "O", "W", "N">>

\* a factory that does not look at the Type parameter
TypeFromString_ignored(typeStr) == Unknown

TypeFromString(typeStr) ==
  IF typeStr # <<>> /\ TransformUpper(typeStr) \in FirmwareTypes
  THEN TransformUpper(typeStr)
  ELSE Unknown

ParseURL(url) ==
  LET lowerUrl == TransformLower(url)
  IN IF FindAtZero(lowerUrl, <<"d", "i", "g", "1", ":", "/", "/">>) THEN <<"P", "S", "D", "1">>
     ELSE IF FindAtZero(lowerUrl, <<"d", "i", "g", "2", ":", "/", "/">>) THEN <<"P", "S", "D", "2">>
     ELSE Unknown

DetectFirmwareType(url) == ParseURL(url)

\* what CreateDigitizer does: throw, or hand back an implementation, with or
\* without the fallback warning on std::cerr
CreateDigitizer(cfg) ==
  IF cfg.URL = <<>>
  THEN [thrown |-> TRUE, impl |-> "nullptr", warning |-> FALSE]
  ELSE LET explicit == TypeFromString(cfg.Type)
           type == IF explicit = Unknown THEN DetectFirmwareType(cfg.URL)
                   ELSE explicit
       IN IF type \in {<<"P", "S", "D", "1">>, <<"P", "H", "A", "1">>, <<"Q", "D", "C", "1">>, <<"S", "C", "O", "P", "E", "1">>}
          THEN [thrown |-> FALSE, impl |-> "Digitizer1", warning |-> FALSE]
          ELSE IF type \in {<<"P", "S", "D", "2">>, <<"P", "H", "A", "2">>, <<"S", "C", "O", "P", "E", "2">>}
          THEN [thrown |-> FALSE, impl |-> "Digitizer2", warning |-> FALSE]
          ELSE [thrown |-> FALSE, impl |-> "Digitizer2", warning |-> TRUE]

\* std::stoi: leading white space, an optional sign, then decimal digits up
\* to the first character that is not one
RECURSIVE SkipSpace(_)
SkipSpace(str) ==
  IF str # <<>> /\ Head(str) \in {" ", "\t", "\n"} THEN SkipSpace(Tail(str))
  ELSE str

IntMax == 2147483647
IntMin == -IntMax - 1

\* the digits of str accumulated with the given sign into acc; range is
\* false once the value leaves [IntMin, IntMax]
RECURSIVE ParseDigits(_, _, _, _)
ParseDigits(str, sign, acc, count) ==
  IF str = <<>> \/ IndexIn(Head(str), Digits) = 0
  THEN [count |-> count, value |-> acc, range |-> TRUE]
  ELSE LET d == IndexIn(Head(str), Digits) - 1
       IN IF sign = 1 /\ (acc > IntMax \div 10
                            \/ (acc = IntMax \div 10 /\ d > IntMax % 10))
          THEN [count |-> count + 1, value |-> 0, range |-> FALSE]
          ELSE IF sign = -1 /\ (-acc > IntMax \div 10
                                  \/ (-acc = IntMax \div 10
                                        /\ d > (IntMax % 10) + 1))
          THEN [count |-> count + 1, value |-> 0, range |-> FALSE]
          ELSE ParseDigits(Tail(str), sign, acc * 10 + sign * d, count + 1)

stoi(str) ==
  LET unspaced == SkipSpace(str)
      signed == unspaced # <<>> /\ Head(unspaced) \in {"+", "-"}
      sign == IF signed /\ Head(unspaced) = "-" THEN -1 ELSE 1
      parsed == ParseDigits(IF signed THEN Tail(unspaced) ELSE unspaced,
                            sign, 0, 0)
  IN IF parsed.count = 0 THEN [thrown |-> "invalid_argument", value |-> 0]
     ELSE IF ~parsed.range THEN [thrown |-> "out_of_range", value |-> 0]
     ELSE [thrown |-> "none", value |-> parsed.value]

\* the conversion of an int to uint32_t: the value modulo 2^32
ToUint32(n) ==
  IF n >= 0 THEN Enc(n, 0, 32) ELSE (0..31) \ Enc(-(n + 1), 0, 32)

\* the Threads block of Digitizer1::Initialize and Digitizer2::Initialize
ParseThreads(threadsStr, old) ==
  IF threadsStr = <<>> THEN old
  ELSE IF stoi(threadsStr).thrown # "none" THEN {0}
  ELSE IF ToUint32(stoi(threadsStr).value) = {} THEN {0}
  ELSE ToUint32(stoi(threadsStr).value)

URLs ==
  {<<>>, <<"d", "i", "g", "1", ":", "/", "/", "h">>, <<"D", "i", "g", "2", ":", "/", "/", "h">>, <<"u", "s", "b", ":", "/", "/", "h">>, <<"x", "d", "i", "g", "1", ":", "/", "/">>}
Types ==
  {<<>>} \cup FirmwareTypes \cup {<<"p", "h", "a", "1">>, <<"P", "S", "D", "3">>}
ThreadsValues ==
  {<<>>, <<"2">>, <<"0">>, <<"-", "1">>, <<"a", "b", "c">>, <<"2", "x">>, <<" ", "2">>, <<"-", "0">>, <<"9", "9", "9", "9", "9", "9", "9", "9", "9", "9", "9">>}
Configs ==
  {[URL |-> u, Type |-> t, Threads |-> n] :
     u \in URLs, t \in Types, n \in ThreadsValues}

\* Digitizer::Initialize: the factory, then Initialize of the implementation,
\* whose result is that of opening the device
Initialize ==
  /\ Len(calls) < MaxCalls
  /\ IF CreateDigitizer(config).thrown
     THEN /\ calls' = Append(calls, [call |-> "Initialize", value |-> "false",
                                     warning |-> FALSE])
          /\ UNCHANGED <<fDigitizerImpl, fNThreads>>
     ELSE \E opened \in {"true", "false"} :
            /\ fDigitizerImpl' = CreateDigitizer(config).impl
            /\ fNThreads' = ParseThreads(config.Threads, {0})
            /\ calls' =
                 Append(calls, [call |-> "Initialize", value |-> opened,
                                warning |-> CreateDigitizer(config).warning])
  /\ UNCHANGED <<engineVars, workerVars, producerVars, consumerVars,
                 ownerVars, alive, historyVars, config, checked, scanned, auxVars>>

\* Digitizer::GetEventData: nullptr without an implementation, else the
\* vector the implementation hands out (no decoder is set up here: empty)
Digitizer_GetEventData ==
  /\ Len(calls) < MaxCalls
  /\ calls' = Append(calls,
                     [call |-> "GetEventData",
                      value |-> IF fDigitizerImpl = "nullptr" THEN "nullptr"
                                ELSE "vector",
                      warning |-> FALSE])
  /\ UNCHANGED <<engineVars, workerVars, producerVars, consumerVars,
                 ownerVars, alive, historyVars, config, fDigitizerImpl,
                 fNThreads, checked, scanned, auxVars>>

InitFacade ==
  /\ Constructor("PSD2", 1)
  /\ Idle
  /\ config \in Configs
  /\ fDigitizerImpl = "nullptr"
  /\ fNThreads = {0}
  /\ calls = <<>>
  /\ checked = NoCheck
  /\ scanned = NoScan
  /\ NoAux

NextFacade == Initialize \/ Digitizer_GetEventData

SpecFacade == InitFacade /\ [][NextFacade]_vars

\* ------------------------------------------------- DecodeData on its own
\* gen-2 buffers as the device sends them
\* the header declares 5 words, 3 were received
OverDeclared ==
  Wire(<<Header(kTypeData, 1, 5), EventFirst(5, 7), EventSecond(42, 0, 10)>>)
\* the header declares 2 words, 3 were received
UnderDeclared ==
  Wire(<<Header(kTypeData, 1, 2), EventFirst(5, 7), EventSecond(42, 0, 10)>>)

EventSecondWave(energy) == EventSecond(energy, 0, 0) \cup {kWaveformFlagShift}

\* one event with a waveform of nWords data words whose first data word
\* carries firstSample in its low bits
WaveEvent(nWords, firstSample) ==
  Wire(<<Header(kTypeData, 1, 5 + nWords),
         EventFirst(3, 9), EventSecondWave(40),
         Enc(1, kTimeResolutionShift, 2), Enc(nWords, 0, 12)>>
       \o [j \in 1..nWords |-> IF j = 1 THEN Enc(firstSample, 0, 14)
                                ELSE Enc(j, 0, 14)])

\* a waveform point: the two 14-bit analog values and digital probe 3
WavePoint(analog1, analog2) ==
  Enc(analog1, 0, 14) \cup Enc(analog2, 16, 14) \cup {30}

\* one event with a waveform of two data words (four points) under a
\* waveform header with ap1_signed set and the given ap1_mul code; the
\* points carry 0x2002, 100, 0x3FFF and 0x2000 for analog probe 1
SignedWave(ap1MulCode) ==
  Wire(<<Header(kTypeData, 1, 7),
         EventFirst(3, 9), EventSecondWave(40),
         Enc(1, kTimeResolutionShift, 2) \cup {3, 63}
           \cup Enc(ap1MulCode, 4, 2),
         Enc(2, 0, 12),
         WavePoint(8194, 7) \cup Enc(100, 32, 14),
         Enc(16383, 0, 14) \cup Enc(8192, 32, 14)>>)

PSD2Buffers ==
  {TwoEvents, ZeroCounter, BadHeader, OverDeclared, UnderDeclared,
   WaveEvent(2, 2), WaveEvent(2, 1), WaveEvent(2, 5), WaveEvent(1, 0),
   SignedWave(0), SignedWave(1)}

\* gen-1 buffers
\* extras and charge/energy enabled with the given extras option
ChannelConfigWordOption(extraOption) ==
  {kExtrasEnabledShift, kChargeEnabledShift}
    \cup Enc(extraOption, kExtraOptionShift, 3)

\* an extras word: extended time, the 6-bit flag group, fine time
ExtrasWord(extendedTime, flags, fineTimeStamp) ==
  Enc(extendedTime, kExtendedTimeShift, 16) \cup Enc(flags, kFlagsShift, 6)
    \cup Enc(fineTimeStamp, 0, 10)

\* a board aggregate of 4 words followed by one more word
G1Trailing ==
  Words32(<<BoardHeaderWord(kBoardHeaderTypeData, 4), {}, {}, {}, {}>>)
\* a board header that declares an aggregate of aggregateSize words
G1Declares(aggregateSize) ==
  Words32(<<BoardHeaderWord(kBoardHeaderTypeData, aggregateSize), {}, {}, {}>>)
\* a pair block of 2 + 2 words whose events take 3 words each, and a second
\* board aggregate behind it
G1ShortPair ==
  Words32(<<BoardHeaderWord(kBoardHeaderTypeData, 8), {0}, {}, {},
            ChannelSizeWord(4), ChannelConfigWord,
            TimeTagWord(FALSE, 7), ExtrasWord(0, 0, 512),
            BoardHeaderWord(kBoardHeaderTypeData, 4), {}, {}, {}>>)
\* a pair block that declares 20 words inside a board aggregate of 12 that
\* its two events of 3 words fill, and a second board aggregate
G1PairOverBoard ==
  Words32(<<BoardHeaderWord(kBoardHeaderTypeData, 12), {0}, {}, {},
            ChannelSizeWord(20), ChannelConfigWord,
            TimeTagWord(FALSE, 7), ExtrasWord(0, 0, 512), Enc(42, 0, 15),
            TimeTagWord(FALSE, 8), ExtrasWord(0, 0, 0), Enc(44, 0, 15),
            BoardHeaderWord(kBoardHeaderTypeData, 9), {0}, {}, {},
            ChannelSizeWord(5), ChannelConfigWord,
            TimeTagWord(TRUE, 9), ExtrasWord(0, 0, 0), Enc(43, 0, 15)>>)
\* the same with events of 2 words (time tag and charge) in a board
\* aggregate that leaves 3 words to them
G1Straddle ==
  Words32(<<BoardHeaderWord(kBoardHeaderTypeData, 9), {0}, {}, {},
            ChannelSizeWord(20), {kChargeEnabledShift},
            TimeTagWord(FALSE, 7), Enc(42, 0, 15),
            TimeTagWord(FALSE, 8),
            BoardHeaderWord(kBoardHeaderTypeData, 8), {0}, {}, {},
            ChannelSizeWord(4), {kChargeEnabledShift},
            TimeTagWord(TRUE, 9), Enc(43, 0, 15)>>)
\* a board aggregate of 10 words whose only pair block takes 2 + 3 of them
G1Slack ==
  Words32(<<BoardHeaderWord(kBoardHeaderTypeData, 10), {0}, {}, {},
            ChannelSizeWord(5), ChannelConfigWord,
            TimeTagWord(FALSE, 7), ExtrasWord(0, 0, 512), Enc(42, 0, 15),
            {}>>)
\* one event whose extras word carries extended time 0, flag group 0x30 and
\* fine time 512, under the given extras option
G1Option(extraOption) ==
  Words32(<<BoardHeaderWord(kBoardHeaderTypeData, 9), {0}, {}, {},
            ChannelSizeWord(5), ChannelConfigWordOption(extraOption),
            TimeTagWord(FALSE, 7), ExtrasWord(0, 48, 512), Enc(42, 0, 15)>>)

\* two 16-bit samples in one waveform word, the digital probe bits of the
\* second sample set
SampleWord(sample1, sample2) ==
  Enc(sample1, 0, 14) \cup Enc(sample2, kSecondSampleShift, 14)
    \cup {kSecondSampleShift + kDigitalProbe1WaveShift}
\* one event with a waveform of one group (numSamplesWave = 1) whose words
\* hold the samples 5, 9, 6, 10, and a charge word
G1Wave(dualTraceEnabled) ==
  Words32(<<BoardHeaderWord(kBoardHeaderTypeData, 10), {0}, {}, {},
            ChannelSizeWord(6),
            {kSamplesEnabledShift, kChargeEnabledShift} \cup Enc(1, 0, 16)
              \cup (IF dualTraceEnabled THEN {kDualTraceShift} ELSE {}),
            TimeTagWord(FALSE, 7), SampleWord(5, 9), SampleWord(6, 10),
            Enc(42, 0, 15)>>)

Gen1Buffers ==
  {G1TwoEvents, G1Trailing, G1Declares(0), G1Declares(3), G1Declares(100),
   G1ShortPair, G1PairOverBoard, G1Straddle, G1Slack,
   G1Option(0), G1Option(1), G1Option(2), G1Option(5),
   G1Wave(TRUE), G1Wave(FALSE)}

DecodeInputs == IF kind = "PSD2" THEN PSD2Buffers ELSE Gen1Buffers

\* the locals of one DecodeData call: where it is, the buffer, the locals of
\* ProcessEventData, and of the last iteration made: the cursor it started
\* from, the highest word index it read, the samples it wrote and the
\* samples it had allocated
\* event parameters chosen before a buffer is built from them
MaxTimeTag == 1000000
Gen2Parameters ==
  [channel : {0, 5, 127}, energy : {0, 4200, 65535},
   energyShort : {100, 65535}, flags : {0, 2047, 2048, 524287},
   rawTimeStamp : {1000, MaxTimeTag}, fineTime : {0, 512, 1023}]

PSD1Parameters ==
  [pair : {0, 3, 7}, odd : BOOLEAN, energy : {0, 4000, 65535},
   energyShort : {80, 32767}, triggerTimeTag : {0, 500, MaxTimeTag}]

NoParameters == [channel |-> -1]

\* the 19-bit flags as flags_high in bits [42:49] and flags_low in [50:60]
EventFlags(flags) ==
  Enc(flags \div 2048, kFlagsHighPriorityShift, 8)
    \cup Enc(flags % 2048, kFlagsLowPriorityShift, 11)

\* a gen-2 buffer of one event without waveform that carries the parameters
Gen2Encoded(p) ==
  Wire(<<Header(kTypeData, 1, 3), EventFirst(p.channel, p.rawTimeStamp),
         EventSecond(p.energy, p.fineTime, p.energyShort)
           \cup EventFlags(p.flags)>>)

\* a PSD1 board aggregate with the one pair p.pair active and one event of a
\* time tag word and a charge word (no samples, no extras)
PSD1Encoded(p) ==
  Words32(<<BoardHeaderWord(kBoardHeaderTypeData, 8), {p.pair}, {}, {},
            ChannelSizeWord(4), {kChargeEnabledShift},
            TimeTagWord(p.odd, p.triggerTimeTag),
            Enc(p.energyShort, 0, 15)
              \cup Enc(p.energy, kChargeLongShift, 16)>>)

DecodeDataCall(raw) ==
  [pc |-> "decode", raw |-> Prepared(raw), wordIndex |-> 0, totalSize |-> 0,
   events |-> <<>>, break |-> FALSE, undefined |-> FALSE, from |-> -1,
   lastRead |-> -1, written |-> 0, allocated |-> 0, params |-> NoParameters]

\* a DecodeData call on the buffer built from chosen parameters
EncodedCalls ==
  IF kind = "PSD2"
  THEN {[DecodeDataCall(Gen2Encoded(p)) EXCEPT !.params = p] :
          p \in Gen2Parameters}
  ELSE IF kind = "Dig1"
  THEN {[DecodeDataCall(PSD1Encoded(p)) EXCEPT !.params = p] :
          p \in PSD1Parameters}
  ELSE {}

\* DecodeData up to ProcessEventData: the checks on the header
DecodeDataStart ==
  /\ alive /\ scanned.pc = "decode"
  /\ scanned' =
       IF HeaderAccepted(scanned.raw)
       THEN [scanned EXCEPT !.pc = "process",
                            !.wordIndex = StartLocal(scanned.raw).wordIndex,
                            !.totalSize = StartLocal(scanned.raw).totalSize]
       ELSE [scanned EXCEPT !.pc = "rejected"]
  /\ UNCHANGED <<engineVars, workerVars, producerVars, consumerVars,
                 ownerVars, alive, historyVars, facadeVars, checked,
                 auxVars>>

\* one iteration of the scan loop of ProcessEventData
ProcessEventDataStep ==
  /\ alive /\ scanned.pc = "process" /\ LoopRuns(scanned)
  /\ LET b == ProcessBlock(scanned.raw,
                           Scan(scanned.wordIndex, scanned.events, FALSE),
                           scanned.totalSize)
         d == DecodeEventPair(scanned.raw, scanned.wordIndex, fTimeStep,
                              fModuleNumber)
     IN \E survives \in (IF b.scan.undefined THEN BOOLEAN ELSE {TRUE}) :
          /\ alive' = survives
          /\ scanned' =
               [scanned EXCEPT
                  !.wordIndex = b.scan.wordIndex,
                  !.events = b.scan.events,
                  !.break = b.break,
                  !.undefined = @ \/ b.scan.undefined,
                  !.from = scanned.wordIndex,
                  !.lastRead = IF kind = "PSD2" THEN d.lastRead ELSE -1,
                  !.written = IF kind = "PSD2" THEN d.written ELSE 0,
                  !.allocated = IF kind = "PSD2" THEN d.event.waveformSize
                                ELSE 0]
  /\ UNCHANGED <<engineVars, workerVars, producerVars, consumerVars,
                 ownerVars, historyVars, facadeVars, checked,
                 auxVars>>

\* the scan loop is left and DecodeData returns the events
DecodeDataReturn ==
  /\ alive /\ scanned.pc = "process" /\ ~LoopRuns(scanned)
  /\ scanned' = [scanned EXCEPT !.pc = "returned"]
  /\ UNCHANGED <<engineVars, workerVars, producerVars, consumerVars,
                 ownerVars, alive, historyVars, facadeVars, checked,
                 auxVars>>

InitDecode ==
  /\ \E k \in Kinds : Constructor(k, 1)
  /\ Idle
  /\ NoFacade
  /\ checked = NoCheck
  /\ \/ \E raw \in DecodeInputs : scanned = DecodeDataCall(raw)
     \/ scanned \in EncodedCalls
  /\ NoAux

NextDecode ==
  \/ DecodeDataStart
  \/ ProcessEventDataStep
  \/ DecodeDataReturn
  \/ \E timeStep \in TimeSteps : SetTimeStep(timeStep)

SpecDecode == InitDecode /\ [][NextDecode]_vars

\* --------------------------------------------------------------- properties
QueuedIds == {fRawDataQueue[i].id : i \in 1..Len(fRawDataQueue)}

Srcs(events) == {events[i].src : i \in 1..Len(events)}

\* call i of AddData has returned to its caller
Returned(i) == addLog[i].exited = FALSE /\ (i < Len(addLog) \/ ppc = "idle")

\* the buffer of call i is, or has been, in fRawDataQueue
Enqueued(i) == i \in QueuedIds \cup popped

\* what the Start and Stop buffers submitted before call i leave the running
\* flag of a gen-2 engine at
RunningBefore(i) ==
  LET controls == {j \in 1..(i - 1) : addLog[j].type \in {"Start", "Stop"}}
      last == CHOOSE j \in controls : \A k \in controls : k <= j
  IN controls # {} /\ addLog[last].type = "Start"

RECURSIVE Flatten(_)
Flatten(batches) ==
  IF batches = <<>> THEN <<>> ELSE Head(batches) \o Flatten(Tail(batches))

\* the events of one buffer form one run, ascending in timeStampNs
RunsSorted(events) ==
  \A i, j \in 1..Len(events) :
    (i < j /\ events[i].src = events[j].src)
      => /\ \A k \in i..j : events[k].src = events[i].src
         /\ events[i].timeStampNs <= events[j].timeStampNs

\* C1: every buffer classified Unknown is handed back as Unknown, with
\* nothing enqueued and the process still running.
C1_UnknownReturnedProcessLives ==
  \A i \in 1..Len(addLog) :
    addLog[i].type = "Unknown" => (~addLog[i].exited /\ ~addLog[i].enq)

\* C2: in a gen-2 engine with its one producer, every call sees the running
\* flag as the last Start or Stop before it left it, so that an Event after a
\* Stop is neither enqueued nor decoded and an Event after a Start is in the
\* queue (or already taken from it) when its call has returned; and the flag
\* holds the value of the last Start or Stop as soon as that call is over.
C2_StartStopTakeEffectInSubmit ==
  kind = "PSD2" =>
    /\ \A i \in 1..Len(addLog) :
         /\ addLog[i].saw = RunningBefore(i)
         /\ (addLog[i].type = "Event" /\ ~RunningBefore(i))
              => (~Enqueued(i) /\ pRaw.id # i /\ i \notin Srcs(stored))
         /\ (addLog[i].type = "Event" /\ RunningBefore(i) /\ Returned(i))
              => (Enqueued(i) \/ dtor = "destroyed")
    /\ (alive /\ ppc = "idle") => fIsRunning = RunningBefore(Len(addLog) + 1)

\* a Start, then a Stop, then an Event that was turned away
C2_Witness ==
  /\ kind = "PSD2" /\ Len(addLog) = 3 /\ ppc = "idle"
  /\ addLog[1].type = "Start" /\ addLog[2].type = "Stop"
  /\ addLog[3].type = "Event" /\ ~addLog[3].enq /\ fRawDataQueue = <<>>

\* C3: whatever is in the input queue, in a worker's hands or behind a decoded
\* event came from a call classified Event that found the running flag set;
\* and every returned Event call that found the flag set did enqueue.
C3_OnlyRunningEventsEnqueued ==
  /\ \A id \in QueuedIds \cup popped \cup Srcs(stored) \cup
                 (IF ppc = "push" THEN {pRaw.id} ELSE {}) :
       addLog[id].type = "Event" /\ addLog[id].saw
  /\ \A i \in 1..Len(addLog) :
       (addLog[i].type = "Event" /\ addLog[i].saw /\ Returned(i))
         => (Enqueued(i) \/ dtor = "destroyed")

\* an Event turned away before the Start, the Start itself not enqueued, and
\* an Event after it waiting in the queue
C3_Witness ==
  /\ Len(addLog) = 3 /\ ppc = "idle"
  /\ addLog[1].type = "Event" /\ ~addLog[1].saw
  /\ addLog[2].type = "Start"
  /\ addLog[3].type = "Event" /\ QueuedIds = {3} /\ popped = {}

\* C4: once a call classified Stop has returned, the input queue holds no
\* buffer enqueued before it.
C4_StopDrainsQueue ==
  (Len(addLog) > 0 /\ addLog[Len(addLog)].type = "Stop")
    => fRawDataQueue = <<>>

\* C5: the batches returned so far, the batch a drain is holding and the
\* output vector add up, in order, to exactly the events the workers stored:
\* none lost, none twice.
C5_EveryEventDrainedOnce ==
  Flatten(drained) \o dData \o fEventDataVec = stored

\* two drains that each returned events, with more stored since
C5_Witness ==
  /\ Len(drained) = 2 /\ drained[1] # <<>> /\ drained[2] # <<>>
  /\ Srcs(drained[1]) \cap Srcs(drained[2]) = {}

\* C6: with one worker, every batch a drain returned is in non-decreasing
\* timeStampNs order.
C6_SingleWorkerBatchSorted ==
  nThreads = 1 => \A b \in 1..Len(drained) : SortedByTime(drained[b])

\* C7: in the output, in the order it was appended, and in every batch
\* returned, the events of one buffer are one contiguous run in ascending
\* timeStampNs order, and no buffer has events in two batches.
C7_BufferRunsContiguousSorted ==
  /\ RunsSorted(stored)
  /\ RunsSorted(fEventDataVec)
  /\ \A b \in 1..Len(drained) : RunsSorted(drained[b])
  /\ \A b, c \in 1..Len(drained) :
       b # c => Srcs(drained[b]) \cap Srcs(drained[c]) = {}

\* two workers that completed in the reverse of the submission order
C7_Witness ==
  /\ nThreads = 2
  /\ \E i, j \in 1..Len(fEventDataVec) :
       i < j /\ fEventDataVec[i].src > fEventDataVec[j].src
  /\ Len(fEventDataVec) = 4

\* the next iteration of the scan loop of worker w reads inside its buffer and
\* leaves the cursor, the events and the loop condition as they are; the
\* iteration reads nothing else, so it is repeated without end
Stuck(w) ==
  /\ alive /\ wpc[w] = "process" /\ LoopRuns(wLocal[w])
  /\ LET local == wLocal[w]
         b == ProcessBlock(wRaw[w].raw,
                           Scan(local.wordIndex, local.events, FALSE),
                           local.totalSize)
     IN /\ ~b.scan.undefined /\ ~b.break
        /\ b.scan.wordIndex = local.wordIndex
        /\ b.scan.events = local.events

\* C8: a worker that has taken an Event buffer, however damaged, finishes
\* with it and returns to polling the input queue: it is never in a scan loop
\* that cannot end.
C8_WorkerFinishesEveryBuffer == \A w \in Workers : ~Stuck(w)

\* C9: destruction completes: the worker whose exit the destructor is waiting
\* for is never in a scan loop that cannot end.
C9_DestroyCompletes == dtor = "joining" => ~Stuck(joinIdx)

\* C10: a worker owns the input-queue mutex exactly while it is inside the
\* guarded check-and-pop block: not while decoding, sleeping or testing the
\* loop flag.
C10_InputMutexOnlyAroundPop ==
  \A w \in Workers : fRawDataMutex = w <=> wpc[w] = "locked"

\* a submit arrives at the mutex while a worker is decoding, and finds it free
C10_Witness ==
  /\ ppc = "push" /\ fRawDataMutex = 0
  /\ \E w \in Workers : wpc[w] = "process" /\ wLocal[w].events # <<>>

\* the type field of the first word of the buffer of call i, as the worker
\* reads it, is not the data type of the engine's generation
WrongHeaderType(i) ==
  LET word == ReadWord(Prepared(addLog[i].raw), 0)
  IN IF kind = "PSD2" THEN Bits(word, kTypeShift, 4) # kTypeData
     ELSE Bits(word, kBoardHeaderTypeShift, 4) # kBoardHeaderTypeData

\* the worker that took the buffer of call i has let go of it
Done(i) == i \in popped /\ \A w \in Workers : wRaw[w].id # i

\* C11: an enqueued buffer whose header type is not the data type is skipped
\* whole: no worker decodes an event from it, none of its events is ever
\* stored, waiting in the output vector or handed out by a drain.
C11_WrongHeaderTypeSkipped ==
  \A i \in 1..Len(addLog) :
    (addLog[i].enq /\ WrongHeaderType(i))
      => /\ i \notin Srcs(stored) \cup Srcs(fEventDataVec)
                     \cup Srcs(dData) \cup Srcs(Flatten(drained))
         /\ \A w \in Workers : wRaw[w].id = i => wLocal[w].events = <<>>

\* a worker has taken and dropped a wrong-type buffer, and a drain after that
\* has come back empty
C11_Witness ==
  \E i \in 1..Len(addLog) :
    /\ addLog[i].enq /\ WrongHeaderType(i) /\ Done(i)
    /\ drained # <<>> /\ drained[Len(drained)] = <<>>
    /\ fEventDataVec = <<>> /\ stored = <<>> /\ dpc = "idle"

\* the size below which CheckDataType gives Unknown: 3 words of 64 bits, or
\* one board header of 4 words of 32 bits
MinimumSize ==
  IF kind = "PSD2" THEN 3 * kWordSize ELSE kHeaderSizeWords * Dig1_kWordSize

\* C12: a buffer shorter than the minimum is classified Unknown by AddData,
\* is never enqueued and never the source of a decoded event.
C12_ShortBufferUnknown ==
  \A i \in 1..Len(addLog) :
    addLog[i].raw.size < MinimumSize
      => /\ addLog[i].type = "Unknown" /\ ~addLog[i].enq
         /\ ~Enqueued(i) /\ pRaw.id # i
         /\ \A w \in Workers : wRaw[w].id # i
         /\ i \notin Srcs(stored)

\* a whole number of words below the minimum has been submitted, after a
\* buffer that was enqueued and decoded
C12_Witness ==
  \E i \in 2..Len(addLog) :
    /\ addLog[i].raw.size < MinimumSize
    /\ addLog[i].raw.size % WordSize = 0
    /\ stored # <<>>

\* C15: in a gen-1 engine fIsRunning is true in every state, no call is
\* classified Start or Stop, and every call classified Event saw the flag
\* set and had its buffer enqueued by the time it returned (the queue lives
\* until the engine is destroyed).
C15_Gen1AlwaysRunning ==
  kind # "PSD2" =>
    /\ fIsRunning
    /\ \A i \in 1..Len(addLog) :
         /\ addLog[i].type \notin {"Start", "Stop"}
         /\ addLog[i].type = "Event" => (addLog[i].saw /\ addLog[i].enq)
         /\ (addLog[i].type = "Event" /\ Returned(i))
              => (Enqueued(i) \/ dtor = "destroyed")

\* a gen-1 engine has taken three buffers, the last an Event that a worker
\* decoded into stored events
C15_Witness ==
  /\ kind # "PSD2" /\ Len(addLog) = MaxSubmits
  /\ addLog[MaxSubmits].type = "Event"
  /\ MaxSubmits \in Srcs(stored)

\* C17: with one worker, a buffer decoded after another one gets the counter
\* discontinuity message exactly when its aggregate counter is not the
\* previous buffer's counter plus one modulo 2^16; with more workers no
\* buffer gets the message.
C17_GapWarningIffDiscontinuity ==
  \A e \in counterLog :
    IF nThreads = 1
    THEN ~e.first => (e.warned <=> e.counter # (e.last + 1) % Pow2(16))
    ELSE ~e.warned

\* bits [56, 64) of word i of the buffer the classifier looked at
TopByteOf(i) == Bits(ReadWord(checked.raw, i), 56, 8)

\* the Start pattern of the claim: top bytes 0x30, 0x02, 0x01, 0x01
StartPattern ==
  /\ checked.raw.size = 4 * kWordSize
  /\ TopByteOf(0) = 48 /\ TopByteOf(1) = 2
  /\ TopByteOf(2) = 1 /\ TopByteOf(3) = 1

\* the Stop pattern of the claim: top bytes 0x32, 0x00, 0x01
StopPattern ==
  /\ checked.raw.size = 3 * kWordSize
  /\ TopByteOf(0) = 50 /\ TopByteOf(1) = 0 /\ TopByteOf(2) = 1

\* C13: the gen-2 classifier gives Start exactly to the 4-word buffers with
\* top bytes 0x30, 0x02, 0x01, 0x01, Stop exactly to the 3-word buffers with
\* top bytes 0x32, 0x00, 0x01, each top byte compared in all its eight
\* bits, and Event to every other buffer of at least 3 whole words.
C13_StartStopByFullTopBytes ==
  (kind = "PSD2" /\ checked # NoCheck
     /\ checked.raw.size >= 3 * kWordSize
     /\ checked.raw.size % kWordSize = 0)
    => checked.type = (IF StartPattern THEN "Start"
                       ELSE IF StopPattern THEN "Stop" ELSE "Event")

\* C14: the gen-1 classifiers give Event to every buffer of at least 4 whole
\* words of 32 bits, whatever the header type in its first word.
C14_Gen1EventWhateverHeader ==
  (kind # "PSD2" /\ checked # NoCheck
     /\ checked.raw.size >= kHeaderSizeWords * Dig1_kWordSize
     /\ checked.raw.size % Dig1_kWordSize = 0)
    => checked.type = "Event"

\* C18: every GetEventData call on the Digitizer, in whatever state it is
\* made, hands back a vector and never a null pointer.
C18_DrainNeverNull ==
  \A i \in 1..Len(calls) :
    calls[i].call = "GetEventData" => calls[i].value = "vector"

\* the Initialize calls made so far
Initialized == {i \in 1..Len(calls) : calls[i].call = "Initialize"}

\* the Type parameter names a firmware of the given set, in any case
TypeIn(names) ==
  \E name \in names : TransformLower(config.Type) = TransformLower(name)

\* the URL parameter starts with the given scheme, in any case
SchemeIs(scheme) == FindAtZero(TransformLower(config.URL), scheme)

\* generation and warning the precedence rule asks for
Expected ==
  IF TypeIn({<<"P", "S", "D", "1">>, <<"P", "H", "A", "1">>, <<"Q", "D", "C", "1">>, <<"S", "C", "O", "P", "E", "1">>})
  THEN [impl |-> "Digitizer1", warning |-> FALSE]
  ELSE IF TypeIn({<<"P", "S", "D", "2">>, <<"P", "H", "A", "2">>, <<"S", "C", "O", "P", "E", "2">>})
  THEN [impl |-> "Digitizer2", warning |-> FALSE]
  ELSE IF SchemeIs(<<"d", "i", "g", "1", ":", "/", "/">>)
  THEN [impl |-> "Digitizer1", warning |-> FALSE]
  ELSE IF SchemeIs(<<"d", "i", "g", "2", ":", "/", "/">>)
  THEN [impl |-> "Digitizer2", warning |-> FALSE]
  ELSE [impl |-> "Digitizer2", warning |-> TRUE]

\* C19: for a parameter map with a URL, the implementation Initialize leaves
\* behind is gen-1 for a Type of {PSD1, PHA1, QDC1, SCOPE1} and gen-2 for a
\* Type of {PSD2, PHA2, SCOPE2} whatever the URL; with any other Type it is
\* gen-1 for a dig1:// URL and gen-2 for a dig2:// URL; and in every case
\* left it is gen-2, the call having printed the fallback warning, which no
\* other case prints. Names and schemes are matched in any letter case.
C19_FactoryPrecedence ==
  \A i \in Initialized :
    config.URL # <<>>
      => /\ fDigitizerImpl = Expected.impl
         /\ calls[i].warning = Expected.warning

\* an explicit gen-1 Type has won over a dig2:// URL
C19_Witness ==
  /\ Initialized # {}
  /\ config.Type = <<"Q", "D", "C", "1">> /\ SchemeIs(<<"d", "i", "g", "2", ":", "/", "/">>)
  /\ fDigitizerImpl = "Digitizer1"

\* a decimal number of at least 1, written with digits only
PositiveDecimal(str) ==
  /\ str # <<>>
  /\ \A i \in 1..Len(str) : IndexIn(str[i], Digits) # 0
  /\ \E i \in 1..Len(str) : str[i] # "0"

\* C20: once Initialize has set up an implementation its worker count is at
\* least 1, and it is exactly 1 when the Threads parameter is present but
\* is not a positive decimal number (not numeric, zero or negative).
C20_InvalidThreadsGiveOne ==
  fDigitizerImpl # "nullptr" =>
    /\ fNThreads # {}
    /\ (config.Threads # <<>> /\ ~PositiveDecimal(config.Threads))
         => fNThreads = {0}

\* C16: the events decoded from one buffer all carry the same module number
\* and the same time step, whenever the setters are called.
C16_BufferSeesOneConfiguration ==
  \A i, j \in 1..Len(stored) :
    stored[i].src = stored[j].src
      => /\ stored[i].module = stored[j].module
         /\ stored[i].timeResolution = stored[j].timeResolution

\* ------------------------------------------- properties of DecodeData alone
\* an iteration of the scan loop has been made on the buffer
Iterated == scanned.pc \in {"process", "returned"} /\ scanned.from >= 0

Smaller(a, b) == IF a < b THEN a ELSE b

\* the words the buffer holds, by its size field
ActualWords == scanned.raw.size \div WordSize

\* the header's total_size is not the length received
SizeDisagrees ==
  TotalSize(ReadWord(scanned.raw, 0)) # scanned.raw.size \div kWordSize

\* C21: a gen-2 buffer whose header total_size disagrees with the length
\* received, and whose header is of the data type, is still decoded, and
\* every word the decoder reads has an index below both total_size and the
\* number of words received.
C21_ReadsBelowDeclaredAndActual ==
  (kind = "PSD2" /\ scanned.pc # "decode" /\ SizeDisagrees
     /\ ValidateDataHeader(ReadWord(scanned.raw, 0)))
    => /\ scanned.pc # "rejected"
       /\ Iterated =>
            scanned.lastRead < Smaller(scanned.totalSize, ActualWords)

\* the buffer's size field covers exactly the words of its vector
ExactBuffer == Len(scanned.raw.data) * WordSize = scanned.raw.size

\* C22: the PSD1 decoder never reads a 32-bit word at an index at or beyond
\* the buffer's total word count, whether for a board header, a dual-channel
\* header, an event word or a waveform word, also when the buffer is
\* truncated or fewer than 4 words are left after the last board aggregate.
C22_PSD1ReadsInsideBuffer ==
  (kind = "Dig1" /\ ExactBuffer) => ~scanned.undefined

\* the last event the scan decoded
LastEvent == scanned.events[Len(scanned.events)]

\* the last iteration decoded a gen-2 event whose second word has the
\* waveform flag set
WaveformDecoded ==
  /\ kind = "PSD2" /\ Iterated /\ Len(scanned.events) > 0
  /\ Bits(ReadWord(scanned.raw, scanned.from + 1), kWaveformFlagShift, 1) = 1

\* bits [0:11] of the waveform length word: the word after the waveform
\* header word, which follows the event's second word
LengthWordCount == Bits(ReadWord(scanned.raw, scanned.from + 3), 0, 12)

\* C24: a gen-2 event with waveform_present has waveform_size = 2 * n_words,
\* where n_words is bits [0:11] of the waveform length word, the word right
\* after the waveform header word that follows the event's second word.
C24_WaveformSizeFromLengthWord ==
  WaveformDecoded => LastEvent.waveformSize = 2 * LengthWordCount

\* C23: while a gen-2 waveform is decoded every sample index written in the
\* trace vectors is below the length they were allocated with.
C23_SamplesInsideTraces ==
  (kind = "PSD2" /\ Iterated) => scanned.written <= scanned.allocated

\* C25: PHA1 decoding terminates: every iteration of the board-aggregate
\* loop either advances the cursor or ends the loop, also when the board
\* aggregate fails with InsufficientData, InvalidHeader or OutOfBounds.
C25_PHA1IterationAdvancesOrEnds ==
  (kind = "PHA1" /\ Iterated)
    => (scanned.wordIndex > scanned.from \/ ~LoopRuns(scanned))

\* the aggregate size the board header at the start of the last iteration
\* declares, and the end of that board aggregate
DeclaredAggregateSize == Bits(ReadWord(scanned.raw, scanned.from), 0, 28)

BoardEnd == scanned.from + DeclaredAggregateSize

\* C26: PSD1 decoding terminates: every iteration of the board-aggregate
\* loop leaves the cursor at board_end (clamped to the buffer), and that is
\* strictly beyond the index where the iteration's board header started,
\* also when the declared aggregate size is below 4, 0 included.
C26_PSD1CursorBeyondHeaderStart ==
  (kind = "Dig1" /\ Iterated)
    => /\ scanned.wordIndex = Smaller(BoardEnd, scanned.totalSize)
       /\ scanned.wordIndex > scanned.from

\* the events a gen-1 scan has decoded so far
Gen1Events ==
  IF kind # "PSD2" /\ scanned.pc \in {"process", "returned"}
  THEN {scanned.events[i] : i \in 1..Len(scanned.events)} ELSE {}

\* the second word of the dual-channel header of the event's pair block
ConfigWordOf(e) == ReadWord(scanned.raw, e.pairHeader + 1)

\* the words the event needs according to the enable bits of its pair block
WordsNeeded(e) ==
  1 + (IF kExtrasEnabledShift \in ConfigWordOf(e) THEN 1 ELSE 0)
    + (IF kChargeEnabledShift \in ConfigWordOf(e) THEN 1 ELSE 0)
    + (IF kSamplesEnabledShift \in ConfigWordOf(e)
       THEN 2 * Bits(ConfigWordOf(e), 0, 16) ELSE 0)

\* C27: a gen-1 decoder never emits a partial event: an event whose words,
\* counted from the enable bits, are more than the words left in its
\* dual-channel-pair block is not emitted.
C27_NoPartialEvent ==
  \A e \in Gen1Events : e.firstWord + WordsNeeded(e) <= e.blockEnd

\* the board header at the start of the last iteration is a valid one and
\* its board aggregate lies inside the buffer
BoardProcessed ==
  /\ Iterated
  /\ scanned.from + kHeaderSizeWords <= scanned.totalSize
  /\ ValidateBoardHeader(ReadWord(scanned.raw, scanned.from)) = "Success"
  /\ BoardEnd <= scanned.totalSize

\* C28: after the PHA1 decoder has processed a board aggregate the cursor is
\* at its board_end, the index of its header plus its aggregate size, also
\* when the events of the block did not take every word up to board_end.
C28_PHA1CursorAtBoardEnd ==
  (kind = "PHA1" /\ BoardProcessed) => scanned.wordIndex = BoardEnd

\* the end the dual-channel header of the event's pair block declares
DeclaredPairEnd(e) ==
  e.pairHeader + Bits(ReadWord(scanned.raw, e.pairHeader), 0, 22)

\* the events of pair blocks whose declared end exceeds the end of their
\* board aggregate
ClampedEvents == {e \in Gen1Events : DeclaredPairEnd(e) > e.boardEnd}

\* C29: when a dual-channel-pair block declares an end beyond the board_end
\* of its board aggregate, no event of that pair is decoded starting at a
\* word index at or beyond board_end, decoding resumes at board_end, and
\* the events decoded before that point stay in the event vector.
C29_PairClampedToBoardEnd ==
  \A e \in ClampedEvents :
    /\ e.firstWord < e.boardEnd
    /\ scanned.events[e.seq] = e
    /\ (Iterated /\ e.firstWord >= scanned.from)
         => scanned.wordIndex = e.boardEnd

\* a gen-1 event of a pair block with extras enabled, no samples, and an
\* extras option other than 0b010
OtherOption(e) ==
  /\ kExtrasEnabledShift \in ConfigWordOf(e)
  /\ kSamplesEnabledShift \notin ConfigWordOf(e)
  /\ Bits(ConfigWordOf(e), kExtraOptionShift, 3) # kExtendedFlagsFineTT

\* trigger_time_tag and extended_time of the event, from its time-tag word
\* and its extras word
TriggerTimeTagOf(e) == Bits(ReadWord(scanned.raw, e.firstWord), 0, 31)

ExtendedTimeOf(e) ==
  Bits(ReadWord(scanned.raw, e.firstWord + 1), kExtendedTimeShift, 16)

\* C30: for a gen-1 event with extras enabled and an extras option other
\* than 0b010 only extended_time is taken from the extras word: the
\* timestamp is (trigger_time_tag + (extended_time << 31)) * time_step with
\* no fine-time term, and no flag is derived from the extras word.
C30_OtherOptionsExtendedTimeOnly ==
  \A e \in Gen1Events :
    OtherOption(e)
      => /\ e.timeStampNs =
              (TriggerTimeTagOf(e) + ShiftLeft(ExtendedTimeOf(e), 31))
                * e.timeResolution * kFineTimeScale
         /\ e.flags = 0

\* ------------------------------------------------------- gen-1 dual trace
\* the first waveform word of a gen-1 event: behind the time tag word, and
\* in PHA1 behind the extras word too
WaveformStart(e) ==
  e.firstWord + 1
    + (IF kind = "PHA1" /\ kExtrasEnabledShift \in ConfigWordOf(e)
       THEN 1 ELSE 0)

\* the 14 analog bits of the event's interleaved sample number i
RawSample(e, i) ==
  Bits(ReadWord(scanned.raw, WaveformStart(e) + (i \div 2)),
       (i % 2) * kSecondSampleShift, 14)

\* the samples held by the waveform words that the decoder reads
SamplesRead(e) == Bits(ConfigWordOf(e), 0, 16) * 2 * kSamplesPerWord

\* decoded gen-1 events of a pair block with samples and dual trace enabled
DualTraceEvents ==
  {e \in Gen1Events :
     /\ kSamplesEnabledShift \in ConfigWordOf(e)
     /\ kDualTraceShift \in ConfigWordOf(e)
     /\ e.waveformSize > 0}

\* C31: with dual trace enabled the gen-1 waveform decoder de-interleaves:
\* analog_probe_1 at i is the analog value of the even sample at i (i even)
\* or of the preceding even sample (i odd), analog_probe_2 at i is the
\* analog value of the odd sample at i (i odd) or of the preceding odd
\* sample at i - 1 (i even, i >= 2), and both have length waveform_size
C31_DualTraceDeinterleaved ==
  \A e \in DualTraceEvents :
    /\ Len(e.analogProbe1) = e.waveformSize
    /\ Len(e.analogProbe2) = e.waveformSize
    /\ \A i \in 0..(Smaller(SamplesRead(e), e.waveformSize) - 1) :
         /\ e.analogProbe1[i + 1] =
              RawSample(e, IF i % 2 = 0 THEN i ELSE i - 1)
         /\ i % 2 = 1 => e.analogProbe2[i + 1] = RawSample(e, i)
         /\ (i % 2 = 0 /\ i >= 2)
              => e.analogProbe2[i + 1] = RawSample(e, i - 1)

\* ------------------------------------------------------- gen-2 event fields
\* the events a gen-2 DecodeData call has emitted so far
PSD2Events ==
  IF kind = "PSD2" /\ scanned.pc \in {"process", "returned"}
  THEN {scanned.events[i] : i \in 1..Len(scanned.events)} ELSE {}

\* C34: every event emitted by the gen-2 decoder has down_sample_factor in
\* {1, 2, 4, 8}, whether or not it carries a waveform
C34_DownSampleFactorPowerOfTwo ==
  \A e \in PSD2Events : e.downSampleFactor \in {1, 2, 4, 8}

\* -------------------------------------------------------- gen-2 waveforms
\* the waveform header word of a gen-2 event: behind its two words
WaveformHeaderOf(e) == ReadWord(scanned.raw, e.firstWord + 2)

\* the 32-bit half-word of the event's point number i, as its bit offset in
\* the 64-bit data word that holds it
PointWord(e, i) == ReadWord(scanned.raw, e.firstWord + 4 + (i \div 2))

PointShift(i) == (i % 2) * 32

\* the points the decoder stored: those of the n_words data words, as far as
\* the traces reach
PointsStored(e) ==
  Smaller(2 * Bits(ReadWord(scanned.raw, e.firstWord + 3), 0, 12),
          Len(e.analogProbe1))

\* gen-2 waveform events under a header with ap1_signed set and ap1_mul 0
SignedUnscaled ==
  {e \in PSD2Events :
     /\ Bits(ReadWord(scanned.raw, e.firstWord + 1), kWaveformFlagShift, 1) = 1
     /\ 3 \in WaveformHeaderOf(e)
     /\ Bits(WaveformHeaderOf(e), 4, 2) = 0}

\* C36: in a gen-2 waveform with ap1_signed set and ap1_mul code 0, each
\* analog_probe_1[i] is the 14-bit sample in bits [0:13] of its 32-bit
\* half-word read as two's complement: the bits [0:12] minus 8192 times
\* bit 13, a value in -8192..8191
C36_SignedSampleTwosComplement ==
  \A e \in SignedUnscaled :
    \A i \in 0..(PointsStored(e) - 1) :
      /\ e.analogProbe1[i + 1] =
           Bits(PointWord(e, i), PointShift(i), 13)
             - 8192 * Bits(PointWord(e, i), PointShift(i) + 13, 1)
      /\ e.analogProbe1[i + 1] \in -8192..8191

\* a signed waveform of four points with negative and positive samples
C36_Witness ==
  \E e \in SignedUnscaled :
    /\ PointsStored(e) = 4
    /\ e.analogProbe1 = <<-8190, 100, -1, -8192>>

\* the events a DecodeData call of any decoder has emitted, no store or
\* read of the call having left the buffer or the traces
EmittedEvents ==
  IF scanned.pc \in {"process", "returned"} /\ ~scanned.undefined
  THEN {scanned.events[i] : i \in 1..Len(scanned.events)} ELSE {}

\* C37: every emitted event with waveform_size > 0 has each of its six
\* trace vectors (two analog, four digital) of length waveform_size
C37_TracesHaveWaveformSize ==
  \A e \in EmittedEvents :
    e.waveformSize > 0
      => /\ Len(e.analogProbe1) = e.waveformSize
         /\ Len(e.analogProbe2) = e.waveformSize
         /\ Len(e.digitalProbe1) = e.waveformSize
         /\ Len(e.digitalProbe2) = e.waveformSize
         /\ Len(e.digitalProbe3) = e.waveformSize
         /\ Len(e.digitalProbe4) = e.waveformSize

\* a decoded waveform event whose traces hold samples
C37_Witness ==
  \E e \in EmittedEvents :
    /\ e.waveformSize > 0
    /\ \E i \in 1..e.waveformSize : e.analogProbe1[i] # 0
    /\ \E i \in 1..e.waveformSize : e.digitalProbe1[i] # 0

\* ------------------------------------------------------------- round trip
\* a call on a buffer built from parameters has returned
RoundTripDone ==
  scanned.pc = "returned" /\ scanned.params # NoParameters

\* C35: a buffer built by encoding chosen event parameters with the
\* reference bit layout (no waveform, no extras) decodes to exactly those
\* parameters: one event, for gen-2 with the channel, energy, energy_short,
\* flags and timestamp raw_timestamp * time_step + (fine_time / 1024) *
\* time_step, for PSD1 with channel 2 * pair + odd bit, energy,
\* energy_short and timestamp trigger_time_tag * time_step
C35_EncodedParametersDecoded ==
  RoundTripDone
    => /\ Len(scanned.events) = 1
       /\ LET e == scanned.events[1]
              p == scanned.params
          IN /\ e.energy = p.energy
             /\ e.energyShort = p.energyShort
             /\ e.waveformSize = 0
             /\ IF kind = "PSD2"
                THEN /\ e.channel = p.channel
                     /\ e.flags = p.flags
                     /\ e.timeStampNs =
                          p.rawTimeStamp * e.timeResolution * kFineTimeScale
                            + p.fineTime * e.timeResolution
                ELSE /\ e.channel = 2 * p.pair + (IF p.odd THEN 1 ELSE 0)
                     /\ e.timeStampNs =
                          p.triggerTimeTag * e.timeResolution * kFineTimeScale

\* round trips made by both decoders with a time step of 2 ns: a gen-2 event
\* with all 19 flag bits and a fine time, a PSD1 event on the odd channel of
\* pair 7
C35_Witness ==
  /\ RoundTripDone /\ Len(scanned.events) = 1
  /\ scanned.events[1].timeResolution = 2
  /\ \/ kind = "PSD2" /\ scanned.params.flags = 524287
        /\ scanned.params.fineTime = 1023
     \/ kind = "Dig1" /\ scanned.params.pair = 7 /\ scanned.params.odd

\* ---------------------------------------------------- workers and the queue
\* worker w holds a buffer it took from the queue
Holding(w) == wpc[w] \in {"decode", "process", "store"}

\* worker w leaves the guarded block with a buffer
Takes(w) == wpc[w] = "locked" /\ wpc'[w] = "decode"

\* worker w passes its buffer to DecodeData
Decodes(w) == wpc[w] = "decode" /\ wpc'[w] # "decode"

\* C33: each raw buffer on the input queue is taken by at most one worker
\* and decoded at most once, and the workers take the buffers in the order
\* they were enqueued, in every interleaving: a worker takes the oldest
\* buffer and removes it, no buffer taken before is taken again or was
\* enqueued later, no other worker holds it, and a worker decodes only the
\* buffer of its own take
C33_TakenOnceInOrder ==
  [][\A w \in Workers :
       /\ Takes(w)
            => /\ fRawDataQueue # <<>>
               /\ wRaw'[w] = Head(fRawDataQueue)
               /\ fRawDataQueue' = Tail(fRawDataQueue)
               /\ wRaw'[w].id \notin popped
               /\ \A id \in popped : id < wRaw'[w].id
               /\ \A i \in 1..Len(fRawDataQueue') :
                    fRawDataQueue'[i].id > wRaw'[w].id
               /\ \A v \in Workers \ {w} :
                    /\ wRaw'[v] = wRaw[v]
                    /\ Holding(v) => wRaw[v].id # wRaw'[w].id
       /\ Decodes(w)
            => /\ wRaw[w].id \in popped
               /\ \A v \in Workers \ {w} :
                    Holding(v) => wRaw[v].id # wRaw[w].id]_vars

\* two workers hold two different buffers at once, both taken from the queue
C33_Witness ==
  \E w \in Workers, v \in Workers :
    /\ w # v /\ Holding(w) /\ Holding(v)
    /\ wRaw[w].id # wRaw[v].id
    /\ {wRaw[w].id, wRaw[v].id} \subseteq popped

\* ------------------------------------------- AddData called by two threads
\* fIsRunning is a plain bool that AddData reads and writes outside
\* fRawDataMutex: a second thread in AddData sees the value of the moment
SubmitInputs == {StartSignal, StopSignal, TwoEvents, ZeroCounter}

\* AddData of the second thread up to the point where it needs fRawDataMutex
AddDataCallOther(raw) ==
  LET dataType == Classify(raw)
      id == nextId + 1
  IN /\ alive /\ dtor = "live" /\ qpc = "idle" /\ nextId < MaxSubmits
     /\ nextId' = id
     /\ addLog' = Append(addLog,
          [id |-> id, raw |-> raw, type |-> dataType, saw |-> fIsRunning,
           enq |-> Enqueues(dataType, fIsRunning), exited |-> Exits(raw)])
     /\ alive' = ~Exits(raw)
     /\ fIsRunning' = RunningAfter(dataType, fIsRunning)
     /\ IF Enqueues(dataType, fIsRunning)
        THEN qpc' = "push" /\ qRaw' = [id |-> id, raw |-> Prepared(raw)]
        ELSE UNCHANGED <<qpc, qRaw>>
     /\ UNCHANGED <<kind, nThreads, fDecodeFlag, fLastCounter, fTimeStep,
                    fModuleNumber, fRawDataQueue, fRawDataMutex,
                    fEventDataVec, fEventDataMutex, workerVars, producerVars,
                    consumerVars, ownerVars, popped, stored, drained,
                    counterLog, facadeVars, checked, scanned, sLogLevel,
                    sDebugEnabled, logged, reader>>

\* lock_guard(fRawDataMutex); push_back; return, in the second thread
AddDataPushOther ==
  /\ alive /\ qpc = "push" /\ fRawDataMutex = 0
  /\ fRawDataQueue' = Append(fRawDataQueue, qRaw)
  /\ qpc' = "idle"
  /\ qRaw' = NoRaw
  /\ UNCHANGED <<kind, nThreads, fDecodeFlag, fIsRunning, fLastCounter,
                 fTimeStep, fModuleNumber, fRawDataMutex, fEventDataVec,
                 fEventDataMutex, workerVars, producerVars, consumerVars,
                 ownerVars, alive, historyVars, facadeVars, checked, scanned,
                 sLogLevel, sDebugEnabled, logged, reader>>

InitSubmit ==
  /\ Constructor("PSD2", 1)
  /\ Idle
  /\ NoFacade
  /\ checked = NoCheck
  /\ scanned = NoScan
  /\ NoAux

NextSubmit ==
  \/ \E raw \in SubmitInputs : AddDataCall(raw)
  \/ AddDataPush
  \/ \E raw \in SubmitInputs : AddDataCallOther(raw)
  \/ AddDataPushOther

SpecSubmit == InitSubmit /\ [][NextSubmit]_vars

\* the last AddData call that returned Start or Stop returned Stop
Stopped ==
  \E i \in 1..Len(addLog) :
    /\ addLog[i].type = "Stop"
    /\ \A j \in (i + 1)..Len(addLog) : addLog[j].type # "Start"

\* C32: once a submit call that returned Stop has completed, no raw buffer
\* is appended to the input queue until a later submit call returns Start,
\* also when another thread's submit of an Event buffer overlapped the Stop
\* call
C32_NoAppendAfterStop ==
  [][Stopped => Len(fRawDataQueue') <= Len(fRawDataQueue)]_vars

\* ------------------------------------------------------------ DecoderLogger
MaxMessages == 2

\* enum class LogLevel { Error, Warning, Info, Debug }, by its values
LogLevels == <<"Error", "Warning", "Info", "Debug">>

LogLevelValue(level) == CHOOSE v \in 0..3 : LogLevels[v + 1] = level

\* the tests the four Log functions make before they write
Writes(call, level, debugEnabled) ==
  CASE call = "LogError" -> LogLevelValue(level) <= LogLevelValue("Error")
    [] call = "LogWarning" -> LogLevelValue(level) <= LogLevelValue("Warning")
    [] call = "LogInfo" -> LogLevelValue(level) <= LogLevelValue("Info")
    [] call = "LogDebug" ->
         debugEnabled /\ LogLevelValue(level) <= LogLevelValue("Debug")

SetLogLevel(level) ==
  /\ sLogLevel' = level
  /\ UNCHANGED <<engineVars, workerVars, producerVars, consumerVars,
                 ownerVars, alive, historyVars, facadeVars, checked, scanned,
                 qpc, qRaw, sDebugEnabled, logged, reader>>

SetDebugEnabled(enable) ==
  /\ sDebugEnabled' = enable
  /\ UNCHANGED <<engineVars, workerVars, producerVars, consumerVars,
                 ownerVars, alive, historyVars, facadeVars, checked, scanned,
                 qpc, qRaw, sLogLevel, logged, reader>>

\* one of LogError, LogWarning, LogInfo and LogDebug
Log(call) ==
  /\ Len(logged) < MaxMessages
  /\ logged' = Append(logged,
       [call |-> call, level |-> sLogLevel, debug |-> sDebugEnabled,
        written |-> Writes(call, sLogLevel, sDebugEnabled)])
  /\ UNCHANGED <<engineVars, workerVars, producerVars, consumerVars,
                 ownerVars, alive, historyVars, facadeVars, checked, scanned,
                 qpc, qRaw, sLogLevel, sDebugEnabled, reader>>

InitLogger ==
  /\ Constructor("PHA1", 1)
  /\ Idle
  /\ NoFacade
  /\ checked = NoCheck
  /\ scanned = NoScan
  /\ NoAux

NextLogger ==
  \/ \E level \in {"Error", "Warning", "Info", "Debug"} : SetLogLevel(level)
  \/ \E enable \in BOOLEAN : SetDebugEnabled(enable)
  \/ Log("LogError")
  \/ Log("LogWarning")
  \/ Log("LogInfo")
  \/ Log("LogDebug")

SpecLogger == InitLogger /\ [][NextLogger]_vars

\* C38: the log sink filters by severity with the default level Warning: at
\* that level every Error and every Warning message is emitted, and a Debug
\* message is never emitted while the debug flag is off, so a decode failure
\* reported at Error level is visible by default
C38_ErrorsVisibleAtDefault ==
  \A i \in 1..Len(logged) :
    /\ (logged[i].level = "Warning"
          /\ logged[i].call \in {"LogError", "LogWarning"})
         => logged[i].written
    /\ (logged[i].call = "LogDebug" /\ ~logged[i].debug)
         => ~logged[i].written

\* ------------------------------------------------------------- MemoryReader
\* size_t values are 64-bit words, held as the set of their set bits
SizeBits == 64

SIZE_MAX == 0..(SizeBits - 1)

BitAt(word, k) == IF k \in word THEN 1 ELSE 0

\* the carry into bit k of a + b
RECURSIVE CarryInto(_, _, _)
CarryInto(a, b, k) ==
  IF k = 0 THEN 0
  ELSE IF BitAt(a, k - 1) = BitAt(b, k - 1) THEN BitAt(a, k - 1)
  ELSE CarryInto(a, b, k - 1)

\* a + b in size_t: the sum modulo 2^64
SizeAdd(a, b) ==
  {k \in 0..(SizeBits - 1) :
     (BitAt(a, k) + BitAt(b, k) + CarryInto(a, b, k)) % 2 = 1}

\* a > b on size_t: the highest bit in which they differ is set in a
SizeGreater(a, b) ==
  LET differ == (a \ b) \cup (b \ a)
  IN differ # {} /\ (CHOOSE k \in differ : \A j \in differ : j <= k) \in a

\* the sizes and counts tried: small values and values next to 2^64
Sizes == {Enc(0, 0, 8), Enc(2, 0, 8), Enc(5, 0, 8), Enc(7, 0, 8)}
Counts ==
  {Enc(0, 0, 8), Enc(1, 0, 8), Enc(2, 0, 8), Enc(3, 0, 8), Enc(6, 0, 8),
   SIZE_MAX, SIZE_MAX \ {0}, {SizeBits - 1}}

\* MemoryReader(dataStart, totalSizeWords), and the caller's index at 0
MemoryReaderNew(totalSizeWords) ==
  /\ reader' = [NoReader EXCEPT !.fTotalSizeWords = totalSizeWords,
                                !.result = "new"]
  /\ UNCHANGED <<engineVars, workerVars, producerVars, consumerVars,
                 ownerVars, alive, historyVars, facadeVars, checked, scanned,
                 qpc, qRaw, sLogLevel, sDebugEnabled, logged>>

\* if (wordIndex + count > fTotalSizeWords) return false;
\* wordIndex += count; return true;
AdvanceIndex(count) ==
  /\ reader.result # "none"
  /\ reader' =
       IF SizeGreater(SizeAdd(reader.wordIndex, count), reader.fTotalSizeWords)
       THEN [reader EXCEPT !.from = reader.wordIndex, !.count = count,
                           !.result = "false"]
       ELSE [reader EXCEPT !.from = reader.wordIndex, !.count = count,
                           !.wordIndex = SizeAdd(reader.wordIndex, count),
                           !.result = "true"]
  /\ UNCHANGED <<engineVars, workerVars, producerVars, consumerVars,
                 ownerVars, alive, historyVars, facadeVars, checked, scanned,
                 qpc, qRaw, sLogLevel, sDebugEnabled, logged>>

InitReader ==
  /\ Constructor("PHA1", 1)
  /\ Idle
  /\ NoFacade
  /\ checked = NoCheck
  /\ scanned = NoScan
  /\ NoAux

NextReader ==
  \/ \E totalSizeWords \in Sizes : MemoryReaderNew(totalSizeWords)
  \/ \E count \in Counts : AdvanceIndex(count)

SpecReader == InitReader /\ [][NextReader]_vars

\* an AdvanceIndex call has returned
Advanced == reader.result \in {"true", "false"}

\* i + n <= total over the integers: the sum needs no 65th bit and is not
\* greater than total
SumWithin(i, n, total) ==
  CarryInto(i, n, SizeBits) = 0 /\ ~SizeGreater(SizeAdd(i, n), total)

\* C39: advance(i, n) returns true and sets the index to i + n when
\* i + n <= total, otherwise it returns false and leaves the index unchanged
C39_AdvanceWithinTotal ==
  Advanced
    => IF SumWithin(reader.from, reader.count, reader.fTotalSizeWords)
       THEN /\ reader.result = "true"
            /\ reader.wordIndex = SizeAdd(reader.from, reader.count)
       ELSE /\ reader.result = "false"
            /\ reader.wordIndex = reader.from

====
